---- MODULE Spec2Model ----
(***************************************************************************)
(* Model of the hearing-list scraper (src/scraper.js, first program of the *)
(* file: lines 1-1142).                                                    *)
(*                                                                         *)
(* Text is modelled at word level: a text is the sequence of its           *)
(* whitespace-delimited words.  Collapsing whitespace runs and trimming    *)
(* are therefore built into the representation; letter case is not, and    *)
(* normalizeText lower-cases every word.  A pipe inserted by the ' | '     *)
(* join of template4a is the word "|".                                     *)
(*                                                                         *)
(* The specifications share the variables:                                 *)
(*   SpecRows   one extractor call, exposed row by row (rows.each)         *)
(*   SpecDates  one extractor call for every raw court date                *)
(*   Spec       main() over a batch of files, one scrapeDataFromHtml call  *)
(*              per step                                                   *)
(*   SpecFetch  main() of the fetch-and-extract program                    *)
(*              (src/unnamed/part_000)                                     *)
(***************************************************************************)
EXTENDS Integers, Sequences, FiniteSets, TLC

VARIABLES
  mode,                  \* "rows" (SpecRows), "dates" (SpecDates), "main" (Spec),
                         \* "download" / "fetch" / "aborted" (SpecFetch), "done"
  template,              \* SpecRows: layout of the running extractor call
  headersIndex,          \* SpecRows: the extractor's headersIndex object
  data,                  \* SpecRows: the extractor's data array
  rowCount,              \* SpecRows: number of rows already iterated
  lastRow,               \* SpecRows: the row of the last iteration
  headerRow,             \* SpecRows: the row the header branch ran on last
  prevIndex,             \* SpecRows: headersIndex before the last iteration
  lastKind,              \* SpecRows: branch the last iteration took
  headerRows,            \* SpecRows: number of rows that took the header branch
  courtDate,             \* SpecRows, SpecDates: the extractor's courtDate argument
  courtDates,            \* SpecRows, SpecDates: Court Date of each record of data
  allData,               \* Spec: main's allData array
  fileCount,             \* Spec: number of .html files already processed
  lastDoc,               \* Spec: document of the file processed last
  lastTemplate,          \* Spec: identifyTemplate's result for lastDoc
  lastExtracted,         \* Spec: concatenated extractor outputs for lastDoc
  lastData,              \* Spec: scrapeDataFromHtml's result for lastDoc
  fileOf,                \* Spec: for each allData record, the file it came from
  unprocessed,           \* Spec: files moved to unprocessed_files
  checked,               \* Spec: files moved to checked_files
  saved,                 \* Spec: records written by saveToCsv, or <<>>
  csvData,               \* SpecCsv: the data argument of saveToCsv
  csvFile,               \* SpecCsv: the output file: written or not, its lines
  links,                 \* SpecNav: links.length of downloadHtmlFiles
  linkIndex,             \* SpecNav: the loop variable i of the link loop
  navPage,               \* SpecNav: the page being navigated: "list" or "tab"
  attempt,               \* SpecNav: the loop variable of navigateWithRetries
  navPc,                 \* SpecNav: position in downloadHtmlFiles
  gotoSucceeded,         \* SpecNav: a page.goto of the running call succeeded
  browserOpen,           \* SpecNav: browser.close() has not been called
  htmlFiles,             \* SpecNav: number of files written to html_files
  currentCase,           \* SpecAcc: <<>> for null, else <<the case being accumulated>>
  lastTime               \* SpecAcc: the last Time text found

vars == <<mode, template, headersIndex, data, rowCount, lastRow, headerRow,
          prevIndex, lastKind, headerRows, courtDate, courtDates, allData, fileCount, lastDoc, lastTemplate,
          lastExtracted, lastData, fileOf, unprocessed, checked, saved,
          csvData, csvFile, links, linkIndex, navPage, attempt, navPc,
          gotoSucceeded, browserOpen, htmlFiles, currentCase, lastTime>>

(***************************************************************************)
(* Bounds                                                                  *)
(***************************************************************************)
MaxRows == 3
MaxFiles == 2

(***************************************************************************)
(* Words and text                                                          *)
(***************************************************************************)
\* Capitalised words of the vocabulary and their lower-case forms.
Caps ==
  { <<"Claim", "claim">>, <<"Number", "number">>, <<"Claimant", "claimant">>,
    <<"Defendant", "defendant">>, <<"Time", "time">>, <<"Start", "start">>,
    <<"Duration", "duration">>, <<"Case", "case">>, <<"Details", "details">>,
    <<"Hearing", "hearing">>, <<"Type", "type">>, <<"Channel", "channel">>,
    <<"Ref", "ref">>, <<"Name", "name">>, <<"Platform", "platform">>,
    <<"Possession", "possession">>, <<"Possessions", "possessions">>,
    <<"Trial", "trial">>, <<"Party", "party">>, <<"Court", "court">>,
    <<"Room", "room">>, <<"Nottingham", "nottingham">>,
    <<"Wigham", "wigham">>, <<"CourtServe", "courtserve">>,
    <<"CourtServe:", "courtserve:">>, <<"Sitting", "sitting">>, <<"At", "at">>,
    <<"John", "john">>, <<"Smith", "smith">>, <<"Jane", "jane">>,
    <<"Doe", "doe">>, <<"Acme", "acme">>, <<"Evans", "evans">>,
    <<"CL123", "cl123">>, <<"CL456", "cl456">>, <<"PCOL", "pcol">>,
    <<"Not", "not">>, <<"Provided", "provided">>, <<"Person", "person">>,
    <<"In", "in">>, <<"Sitting", "sitting">>, <<"At", "at">>,
    <<"Poss", "poss">>, <<"Versus", "versus">>,
    <<"Tuesday", "tuesday">>, <<"Friday", "friday">> }

\* String.prototype.toLowerCase on one word
LowerTable == [w \in {c[1] : c \in Caps} |-> (CHOOSE c \in Caps : c[1] = w)[2]]

\* the words that hold an upper-case letter
UpperWords == DOMAIN LowerTable

Lower(w) == IF w \in UpperWords THEN LowerTable[w] ELSE w

\* the element of a one-element set; Only({ F(v) : v \in {e} }) is F(e) with
\* the value of e computed once (const v = e; ... v ... v ...)
Only(S) == CHOOSE r \in S : TRUE

\* normalizeText: whitespace is already collapsed, every word is lower-cased
normalizeText(text) == [i \in 1..Len(text) |-> Lower(text[i])]

\* the value JavaScript gives for a missing array element or property
Undefined == <<"\\undefined">>

NotProvided == <<"Not", "Provided">>

\* /w1\s*w2 .../i.test(text): the words of pat occur consecutively in text
HasSeq(text, pat) ==
  \E t \in {text} :
    /\ t # Undefined
    /\ \E i \in 0..(Len(t) - Len(pat)) :
         \A j \in 1..Len(pat) : Lower(t[i + j]) = pat[j]

\* /^...$/i.test(normalizeText(text)) for a set of alternative word lists
FullMatch(text, pats) == normalizeText(text) \in pats

\* concatenation of the texts ts[i], ts[i + 1], ...
RECURSIVE FlattenFrom(_, _)
FlattenFrom(ts, i) == IF i > Len(ts) THEN <<>> ELSE ts[i] \o FlattenFrom(ts, i + 1)

\* concatenation of a sequence of texts (cheerio's .text() of an element)
Flatten(ts) == Only({ FlattenFrom(v, 1) : v \in {ts} })

\* Array.prototype.join(' | ') of a sequence of texts
RECURSIVE JoinPipe(_)
JoinPipe(ts) ==
  IF ts = <<>> THEN <<>>
  ELSE IF Len(ts) = 1 THEN ts[1]
  ELSE ts[1] \o <<"|">> \o JoinPipe(Tail(ts))

\* text.replace(/\|/g, '')
StripPipes(text) == SelectSeq(text, LAMBDA w : w # "|")

\* cellsText[i] for a zero-based index i that may be missing or out of range
At0(cellsText, i) ==
  IF i \in 0..(Len(cellsText) - 1) THEN cellsText[i + 1] ELSE Undefined

\* cellsText[headersIndex.f]
AtField(cellsText, hi, f) ==
  IF f \in DOMAIN hi THEN At0(cellsText, hi[f]) ELSE Undefined

\* x || dflt  for a string-or-undefined x
OrElse(x, dflt) == IF x = Undefined \/ x = <<>> THEN dflt ELSE x

(***************************************************************************)
(* Cells                                                                   *)
(*   lines    the text lines of the cell                                   *)
(*   p        TRUE when the lines are <p> elements, FALSE for bare text    *)
(*   colspan  the colspan attribute as a sequence of characters, <<>> when *)
(*            the attribute is absent                                      *)
(*   cls      the class attribute                                          *)
(***************************************************************************)
Cell(lines, p, colspan, cls) ==
  [lines |-> lines, p |-> p, colspan |-> colspan, cls |-> cls]

\* $(cell).text().trim().replace(/\s+/g, ' ')
CellText(cell) == Flatten(cell.lines)

Digits == {"0", "1", "2", "3", "4", "5", "6", "7", "8", "9"}

DigitVal(c) == CHOOSE n \in 0..9 : ToString(n) = c

\* value of the longest prefix of digits of s, continuing from acc
RECURSIVE DigitPrefix(_, _, _)
DigitPrefix(s, acc, seen) ==
  IF s # <<>> /\ Head(s) \in Digits
  THEN DigitPrefix(Tail(s), 10 * acc + DigitVal(Head(s)), TRUE)
  ELSE [nan |-> ~seen, val |-> acc]

\* parseInt(s): optional sign, then the leading digits; NaN when none
parseInt(s) ==
  IF s # <<>> /\ Head(s) = "-"
  THEN LET r == DigitPrefix(Tail(s), 0, FALSE)
       IN  [nan |-> r.nan, val |-> 0 - r.val]
  ELSE IF s # <<>> /\ Head(s) = "+"
  THEN DigitPrefix(Tail(s), 0, FALSE)
  ELSE DigitPrefix(s, 0, FALSE)

\* parseInt($(cell).attr('colspan')) || 1 : NaN and 0 are falsy
ColspanOf(cell) ==
  LET r == parseInt(cell.colspan)
  IN  IF r.nan \/ r.val = 0 THEN 1 ELSE r.val

(***************************************************************************)
(* headersIndex objects                                                    *)
(***************************************************************************)
EmptyIndex == [f \in {} |-> 0]

\* headersIndex.f = v
Put(hi, f, v) == [g \in (DOMAIN hi) \cup {f} |-> IF g = f THEN v ELSE hi[g]]

\* a record of the data array
Record(claimNumber, claimant, defendant, duration, hearingType, hearingChannel) ==
  [ClaimNumber |-> claimNumber, Claimant |-> claimant, Defendant |-> defendant,
   Duration |-> duration, HearingType |-> hearingType,
   HearingChannel |-> hearingChannel]

\* result of one iteration of rows.each
Step(hi, out, kind) == [hi |-> hi, out |-> out, kind |-> kind]

(***************************************************************************)
(* Header predicates and header-cell resolution                            *)
(***************************************************************************)
\* /claim\s*number/i
ClaimNumberToken(text) ==
  HasSeq(text, <<"claim", "number">>) \/ HasSeq(text, <<"claimnumber">>)

\* /claim\s*number claimant/i
ClaimNumberClaimantToken(text) ==
  \/ HasSeq(text, <<"claim", "number", "claimant">>)
  \/ HasSeq(text, <<"claimnumber", "claimant">>)

\* /start\s*time/i
StartTimeToken(text) ==
  HasSeq(text, <<"start", "time">>) \/ HasSeq(text, <<"starttime">>)

\* /case\s*detail(s)?/i
CaseDetailToken(text) ==
  \/ HasSeq(text, <<"case", "details">>) \/ HasSeq(text, <<"case", "detail">>)
  \/ HasSeq(text, <<"casedetails">>) \/ HasSeq(text, <<"casedetail">>)

\* /hearing\s*type/i
HearingTypeToken(text) ==
  HasSeq(text, <<"hearing", "type">>) \/ HasSeq(text, <<"hearingtype">>)

\* /hearing\s*channel/i
HearingChannelToken(text) ==
  HasSeq(text, <<"hearing", "channel">>) \/ HasSeq(text, <<"hearingchannel">>)

\* /duration/i
DurationToken(text) == HasSeq(text, <<"duration">>)

\* /party\s*name|parties\s*suppressed/i
PartyToken(text) ==
  \/ HasSeq(text, <<"party", "name">>) \/ HasSeq(text, <<"partyname">>)
  \/ HasSeq(text, <<"parties", "suppressed">>)
  \/ HasSeq(text, <<"partiessuppressed">>)

\* words that contain "possession"
PossessionWords == {"possession", "possessions", "repossession"}

\* variant of IsPossession that accepts every hearing type
IsPossessionAnyType(x) == x # Undefined

\* /possessions?/i.test(x); test(undefined) tests the string "undefined"
IsPossession(x) ==
  x # Undefined /\ \E i \in 1..Len(x) : Lower(x[i]) \in PossessionWords

\* /posse|possession/i.test(x)
IsPosse(x) ==
  x # Undefined /\ \E i \in 1..Len(x) : Lower(x[i]) \in PossessionWords \cup {"posse"}

\* header-cell branch of extractDataTemplate4
HeaderAssign4(headerText, logicalIndex, hi) ==
  IF ClaimNumberToken(headerText) THEN Put(hi, "claimNumber", logicalIndex)
  ELSE IF FullMatch(headerText, {<<"claimant">>, <<"applicant">>, <<"petitioner">>})
  THEN Put(hi, "claimant", logicalIndex)
  ELSE IF FullMatch(headerText, {<<"defendant">>, <<"respondent">>})
  THEN Put(hi, "defendant", logicalIndex)
  ELSE hi

\* variant of HeaderAssign4a that records claimant at the cell's own index
HeaderAssign4aSameIndex(headerText, logicalIndex, hi) ==
  IF FullMatch(headerText, {<<"claim", "number", "claimant">>,
                            <<"claimnumber", "claimant">>})
  THEN Put(Put(hi, "claimNumber", logicalIndex), "claimant", logicalIndex)
  ELSE IF FullMatch(headerText, {<<"time">>}) THEN Put(hi, "time", logicalIndex)
  ELSE IF FullMatch(headerText, {<<"defendant">>, <<"respondent">>})
  THEN Put(hi, "defendant", logicalIndex)
  ELSE hi

\* header-cell branch of extractDataTemplate4a
HeaderAssign4a(headerText, logicalIndex, hi) ==
  IF FullMatch(headerText, {<<"claim", "number", "claimant">>,
                            <<"claimnumber", "claimant">>})
  THEN Put(Put(hi, "claimNumber", logicalIndex), "claimant", logicalIndex + 1)
  ELSE IF FullMatch(headerText, {<<"time">>}) THEN Put(hi, "time", logicalIndex)
  ELSE IF FullMatch(headerText, {<<"defendant">>, <<"respondent">>})
  THEN Put(hi, "defendant", logicalIndex)
  ELSE hi

\* header-cell branch of extractDataTemplate5
HeaderAssign5(headerText, logicalIndex, hi) ==
  IF StartTimeToken(headerText) THEN Put(hi, "startTime", logicalIndex)
  ELSE IF DurationToken(headerText) THEN Put(hi, "duration", logicalIndex)
  ELSE IF CaseDetailToken(headerText) THEN Put(hi, "caseDetails", logicalIndex)
  ELSE IF HearingTypeToken(headerText) THEN Put(hi, "hearingType", logicalIndex)
  ELSE IF HearingChannelToken(headerText)
  THEN Put(hi, "hearingChannel", logicalIndex)
  ELSE hi

\* header-cell branch of extractDataTemplate7
HeaderAssign7(headerText, logicalIndex, hi) ==
  IF FullMatch(headerText, {<<"time">>}) THEN Put(hi, "time", logicalIndex)
  ELSE IF FullMatch(headerText, {<<"case", "ref">>, <<"caseref">>})
  THEN Put(hi, "caseRef", logicalIndex)
  ELSE IF FullMatch(headerText, {<<"case", "name">>, <<"casename">>})
  THEN Put(hi, "caseName", logicalIndex)
  ELSE IF FullMatch(headerText, {<<"case", "type">>, <<"casetype">>})
  THEN Put(hi, "caseType", logicalIndex)
  ELSE IF FullMatch(headerText, {<<"duration">>})
  THEN Put(hi, "duration", logicalIndex)
  ELSE IF FullMatch(headerText, {<<"hearing", "type">>, <<"hearingtype">>})
  THEN Put(hi, "hearingType", logicalIndex)
  ELSE IF FullMatch(headerText, {<<"hearing", "platform">>, <<"hearingplatform">>})
  THEN Put(hi, "hearingPlatform", logicalIndex)
  ELSE hi

\* variant of HeaderAssign that never overwrites an entry of headersIndex
HeaderAssignKeepFirst(tpl, headerText, logicalIndex, hi) ==
  LET n == CASE tpl = "template4"  -> HeaderAssign4(headerText, logicalIndex, hi)
             [] tpl = "template4a" -> HeaderAssign4a(headerText, logicalIndex, hi)
             [] tpl = "template5"  -> HeaderAssign5(headerText, logicalIndex, hi)
             [] tpl = "template7"  -> HeaderAssign7(headerText, logicalIndex, hi)
  IN  [f \in DOMAIN n |-> IF f \in DOMAIN hi THEN hi[f] ELSE n[f]]

HeaderAssign(tpl, headerText, logicalIndex, hi) ==
  CASE tpl = "template4"  -> HeaderAssign4(headerText, logicalIndex, hi)
    [] tpl = "template4a" -> HeaderAssign4a(headerText, logicalIndex, hi)
    [] tpl = "template5"  -> HeaderAssign5(headerText, logicalIndex, hi)
    [] tpl = "template7"  -> HeaderAssign7(headerText, logicalIndex, hi)

\* the cells.each loop that maps header cells to logical indices
RECURSIVE MapHeaders(_, _, _, _)
MapHeaders(tpl, cells, logicalIndex, hi) ==
  IF cells = <<>> THEN hi
  ELSE Only({ MapHeaders(tpl, Tail(cells), n.logicalIndex, n.hi) :
               n \in { [logicalIndex |-> logicalIndex + ColspanOf(Head(cells)),
                        hi |-> HeaderAssign(tpl, normalizeText(CellText(Head(cells))),
                                            logicalIndex, hi)] } })

\* variant of isDataRow that does not ask for a mapped header
isDataRowNoHeader(cellsText, hi) == Len(cellsText) > 1

\* cellsText.length > 1 && Object.keys(headersIndex).length > 0
isDataRow(cellsText, hi) == Len(cellsText) > 1 /\ DOMAIN hi # {}

(***************************************************************************)
(* extractDataTemplate4: one iteration of rows.each                        *)
(***************************************************************************)
\* cellsText.some(text => /claim\s*number/i.test(normalizeText(text)))
isHeaderRow4(cellsText) ==
  \E j \in 1..Len(cellsText) : ClaimNumberToken(normalizeText(cellsText[j]))

extractRow4(row, hi) ==
  LET cellsText == [j \in 1..Len(row) |-> CellText(row[j])]
  IN  IF isHeaderRow4(cellsText)
      THEN Step(MapHeaders("template4", row, 0, hi), <<>>, "header")
      ELSE IF isDataRow(cellsText, hi)
      THEN IF \A j \in 1..Len(row) : cellsText[j] = <<>>
           THEN Step(hi, <<>>, "empty")
           ELSE LET claimNumber == OrElse(AtField(cellsText, hi, "claimNumber"), <<>>)
                    claimant == StripPipes(OrElse(AtField(cellsText, hi, "claimant"), <<>>))
                    defendant == StripPipes(OrElse(AtField(cellsText, hi, "defendant"), <<>>))
                IN  Step(hi, <<Record(claimNumber, claimant, defendant,
                                      NotProvided, NotProvided, NotProvided)>>,
                         "data")
      ELSE Step(hi, <<>>, "skipped")

(***************************************************************************)
(* extractDataTemplate4a: one iteration of rows.each                       *)
(***************************************************************************)
\* variant of ParagraphText that keeps the first <p> line only
ParagraphTextFirstLine(cell) ==
  LET ls == SelectSeq(cell.lines, LAMBDA l : l # <<>>)
  IN  IF cell.p /\ ls # <<>> THEN ls[1] ELSE <<>>

\* the non-empty <p> lines of a cell joined with ' | '
ParagraphText(cell) ==
  IF cell.p THEN JoinPipe(SelectSeq(cell.lines, LAMBDA l : l # <<>>)) ELSE <<>>

\* index of the first "|" of text, 0 when there is none
FirstPipe(text) ==
  IF \E i \in 1..Len(text) : text[i] = "|"
  THEN CHOOSE i \in 1..Len(text) :
         text[i] = "|" /\ \A k \in 1..(i - 1) : text[k] # "|"
  ELSE 0

\* variant of the split that cuts at the last separator
splitAtLastPipe(text) ==
  LET c == {i \in 1..Len(text) : text[i] = "|"}
  IN  IF c = {} THEN <<text, <<>>>>
      ELSE LET i == CHOOSE k \in c : \A m \in c : m <= k
           IN  <<SubSeq(text, 1, i - 1), SubSeq(text, i + 1, Len(text))>>

\* const [firstPart, ...rest] = text.split(/ \| /); [firstPart, rest.join(' | ')]
splitAtFirstPipe(text) ==
  LET i == FirstPipe(text)
  IN  IF i = 0 THEN <<text, <<>>>>
      ELSE <<SubSeq(text, 1, i - 1), SubSeq(text, i + 1, Len(text))>>

PhoenixName ==
  <<"Phoenix", "Community", "Housing", "|", "Association", "|", "(Bellingham",
    "&", "|", "Downham)", "|", "Limited">>

\* cellsText.some(text => /claim\s*number claimant/i.test(normalizeText(text)))
isHeaderRow4a(cellsText) ==
  \E j \in 1..Len(cellsText) : ClaimNumberClaimantToken(normalizeText(cellsText[j]))

extractRow4a(row, hi) ==
  LET cellsText == [j \in 1..Len(row) |-> ParagraphText(row[j])]
  IN  IF isHeaderRow4a(cellsText)
      THEN Step(MapHeaders("template4a", row, 0, hi), <<>>, "header")
      ELSE IF isDataRow(cellsText, hi)
      THEN IF \A j \in 1..Len(row) : cellsText[j] = <<>>
           THEN Step(hi, <<>>, "empty")
           ELSE LET claimNumber == OrElse(At0(cellsText, 1), <<>>)
                    parts == splitAtFirstPipe(OrElse(At0(cellsText, 2), <<>>))
                    phoenix == parts[1] = PhoenixName
                    claimant3 == IF phoenix THEN StripPipes(parts[1]) ELSE parts[1]
                    defendant3 == IF phoenix THEN StripPipes(parts[2]) ELSE parts[2]
                    claimant ==
                      IF Len(cellsText) = 3 THEN OrElse(claimant3, NotProvided)
                      ELSE StripPipes(OrElse(At0(cellsText, 2), NotProvided))
                    defendant ==
                      IF Len(cellsText) = 3 THEN OrElse(defendant3, NotProvided)
                      ELSE StripPipes(OrElse(At0(cellsText, 3), NotProvided))
                IN  Step(hi, <<Record(claimNumber, claimant, defendant,
                                      NotProvided, NotProvided, NotProvided)>>,
                         "data")
      ELSE Step(hi, <<>>, "skipped")

(***************************************************************************)
(* Claimant / defendant splitting                                          *)
(***************************************************************************)
\* first index i >= lo of a separator word that has text on both sides
\* (the \s+ before and after the separator), 0 when there is none
FirstSep(text, seps, lo) ==
  LET c == {i \in lo..(Len(text) - 1) : i > 1 /\ Lower(text[i]) \in seps}
  IN  IF c = {} THEN 0 ELSE CHOOSE i \in c : \A k \in c : i <= k

\* text.split(/\s+(sep)\s+/i): parts[0], parts[2] and parts.length >= 2
SplitOn(text, seps) ==
  LET i == FirstSep(text, seps, 2)
      j == IF i = 0 THEN 0 ELSE FirstSep(text, seps, i + 2)
  IN  IF i = 0 THEN [split |-> FALSE, first |-> text, third |-> Undefined]
      ELSE [split |-> TRUE, first |-> SubSeq(text, 1, i - 1),
            third |-> SubSeq(text, i + 1, IF j = 0 THEN Len(text) ELSE j - 1)]

\* words of the vocabulary made of upper-case letters and digits only
UpperAlnumWords == {"CL123", "CL456", "PCOL", "A1"}

\* caseDetails.replace(/^[A-Z0-9]+ /, '')
StripLeadingToken(text) ==
  IF Len(text) > 1 /\ text[1] \in UpperAlnumWords THEN Tail(text) ELSE text

\* words that contain the letter v
VWords == {"v", "vs", "versus", "-v-", "-vs-", "evans", "provided", "courtserve"}

(***************************************************************************)
(* extractDataTemplate5: one iteration of rows.each                        *)
(***************************************************************************)
\* cells.filter(not .EmptyCellLayoutStyle)
DataCells(row) == SelectSeq(row, LAMBDA c : c.cls # "EmptyCellLayoutStyle")

\* cellsText.some(text => /party\s*name|parties\s*suppressed/i.test(text))
isPartyRow5(cellsText) == \E j \in 1..Len(cellsText) : PartyToken(cellsText[j])

\* cellsText.some(text => /start\s*time/i.test(normalizeText(text)))
isHeaderRow5(cellsText) ==
  \E j \in 1..Len(cellsText) : StartTimeToken(normalizeText(cellsText[j]))

extractRow5(row, hi) ==
  LET dataCells == DataCells(row)
      cellsText == [j \in 1..Len(dataCells) |-> CellText(dataCells[j])]
      n == Len(cellsText)
      c3 == At0(cellsText, 3)
      c5 == At0(cellsText, 5)
      c6 == At0(cellsText, 6)
      hearingType == IF IsPossession(c5) THEN c5
                     ELSE IF IsPossession(c3) THEN c3 ELSE c6
      at3 == hearingType = c3
      at6 == ~at3 /\ hearingType = c6
      duration == IF at3 THEN At0(cellsText, 1)
                  ELSE IF at6 THEN At0(cellsText, 4) ELSE At0(cellsText, 3)
      caseDetails0 == IF at3 THEN At0(cellsText, 2)
                      ELSE IF at6 THEN At0(cellsText, 5) ELSE At0(cellsText, 4)
      hearingChannel == IF at3 THEN At0(cellsText, 4)
                        ELSE IF at6 THEN At0(cellsText, 7) ELSE At0(cellsText, 6)
      claimNumber == IF caseDetails0 = <<>> THEN <<>> ELSE <<caseDetails0[1]>>
      caseDetails == StripLeadingToken(caseDetails0)
      hasV == FirstSep(caseDetails, {"v", "vs"}, 2) # 0
      hasDash == FirstSep(caseDetails, {"-v-", "-vs-"}, 2) # 0
      parts == IF hasDash THEN SplitOn(caseDetails, {"-v-", "-vs-"})
               ELSE SplitOn(caseDetails, {"v", "vs"})
      claimant == IF hasV \/ hasDash THEN StripPipes(parts.first) ELSE NotProvided
      defendant == IF hasV \/ hasDash THEN StripPipes(parts.third) ELSE NotProvided
  IN  IF isPartyRow5(cellsText)
      THEN Step(hi, <<>>, "skipped")
      ELSE IF isHeaderRow5(cellsText)
      THEN Step(MapHeaders("template5", dataCells, 0, hi), <<>>, "header")
      ELSE IF isDataRow(cellsText, hi)
      THEN IF \A j \in 1..n : cellsText[j] = <<>>
           THEN Step(hi, <<>>, "empty")
           ELSE IF ~IsPossession(hearingType)
           THEN Step(hi, <<>>, "filtered")
           ELSE IF caseDetails0 = Undefined
           THEN Step(hi, <<>>, "throws")
           ELSE IF claimNumber = <<"PCOL">>
           THEN Step(hi, <<>>, "filtered")
           ELSE Step(hi, <<Record(OrElse(claimNumber, NotProvided),
                                  OrElse(claimant, NotProvided),
                                  OrElse(defendant, NotProvided),
                                  OrElse(duration, NotProvided),
                                  OrElse(hearingType, NotProvided),
                                  OrElse(hearingChannel, NotProvided))>>,
                     "data")
      ELSE Step(hi, <<>>, "skipped")

(***************************************************************************)
(* extractDataTemplate7: one iteration of rows.each                        *)
(***************************************************************************)
\* cellsText.some(text => /^case\s*ref$/i.test(normalizeText(text)))
isHeaderRow7(cellsText) ==
  \E j \in 1..Len(cellsText) :
    FullMatch(cellsText[j], {<<"case", "ref">>, <<"caseref">>})

extractRow7(row, hi) ==
  LET dataCells == DataCells(row)
      cellsText == [j \in 1..Len(dataCells) |-> CellText(dataCells[j])]
      n == Len(cellsText)
      caseRef == OrElse(AtField(cellsText, hi, "caseRef"), <<>>)
      caseName == At0(cellsText, 3)
      caseType == OrElse(AtField(cellsText, hi, "caseType"), <<>>)
      duration == OrElse(AtField(cellsText, hi, "hearingType"), <<>>)
      hearingType == At0(cellsText, 5)
      hearingPlatform == At0(cellsText, 6)
      \* /\s*v(?:s)?\s*/i.test(caseName): caseName holds the letter v
      hasV == caseName # Undefined
              /\ \E i \in 1..Len(caseName) : Lower(caseName[i]) \in VWords
      parts == SplitOn(caseName, {"v", "vs"})
      claimant == IF hasV THEN StripPipes(parts.first) ELSE NotProvided
      defendant == IF hasV
                   THEN IF parts.split THEN StripPipes(parts.third) ELSE NotProvided
                   ELSE NotProvided
  IN  IF isHeaderRow7(cellsText)
      THEN Step(MapHeaders("template7", dataCells, 0, hi), <<>>, "header")
      ELSE IF isDataRow(cellsText, hi)
      THEN IF \A j \in 1..n : cellsText[j] = <<>>
           THEN Step(hi, <<>>, "empty")
           ELSE IF ~IsPosse(caseType)
           THEN Step(hi, <<>>, "filtered")
           ELSE Step(hi, <<Record(caseRef,
                                  OrElse(claimant, NotProvided),
                                  OrElse(defendant, NotProvided),
                                  OrElse(duration, NotProvided),
                                  OrElse(hearingType, NotProvided),
                                  OrElse(hearingPlatform, NotProvided))>>,
                     "data")
      ELSE Step(hi, <<>>, "skipped")

\* one iteration of rows.each of the extractor of layout tpl
extractRow(tpl, row, hi) ==
  CASE tpl = "template4"  -> extractRow4(row, hi)
    [] tpl = "template4a" -> extractRow4a(row, hi)
    [] tpl = "template5"  -> extractRow5(row, hi)
    [] tpl = "template7"  -> extractRow7(row, hi)

\* a whole extractor call: rows.each over the table's rows, then return data
RECURSIVE extractRows(_, _, _, _)
extractRows(tpl, rows, hi, acc) ==
  IF rows = <<>> THEN acc
  ELSE Only({ extractRows(tpl, Tail(rows), s.hi, acc \o s.out) :
               s \in {extractRow(tpl, Head(rows), hi)} })

extractData(tpl, table) == extractRows(tpl, table, EmptyIndex, <<>>)

(***************************************************************************)
(* Court dates                                                             *)
(* A raw court date is a sequence of words; a comma is a word of its own.  *)
(* A formatted date is a string, "" when there is none.                    *)
(***************************************************************************)
\* the day numerals of the vocabulary and their values
DayNumbers == ("1" :> 1) @@ ("15" :> 15) @@ ("18" :> 18)

\* /(\d+)(st|nd|rd|th)/ : the numerals with an ordinal suffix, and their digits
OrdinalDigits == ("1st" :> "1") @@ ("15th" :> "15") @@ ("18th" :> "18")

YearNumbers == ("2024" :> 2024) @@ ("2025" :> 2025)

\* the month names new Date(string) knows
MonthNumbers ==
  ("January" :> 1) @@ ("February" :> 2) @@ ("March" :> 3) @@ ("April" :> 4)
  @@ ("May" :> 5) @@ ("June" :> 6) @@ ("July" :> 7) @@ ("August" :> 8)
  @@ ("September" :> 9) @@ ("October" :> 10) @@ ("November" :> 11)
  @@ ("December" :> 12)

welshToEnglishMonths ==
  ("Ionawr" :> "January") @@ ("Chwefror" :> "February") @@ ("Mawrth" :> "March")
  @@ ("Ebrill" :> "April") @@ ("Mai" :> "May") @@ ("Mehefin" :> "June")
  @@ ("Gorffennaf" :> "July") @@ ("Awst" :> "August") @@ ("Medi" :> "September")
  @@ ("Hydref" :> "October") @@ ("Tachwedd" :> "November")
  @@ ("Rhagfyr" :> "December")

\* courtDatestr.includes(',')
HasComma(text) == \E i \in 1..Len(text) : text[i] = ","

\* index of the first "," of text at or after lo, 0 when there is none
NextComma(text, lo) ==
  LET c == {i \in lo..Len(text) : text[i] = ","}
  IN  IF c = {} THEN 0 ELSE CHOOSE i \in c : \A k \in c : i <= k

\* courtDatestr.split(','), every part trimmed
RECURSIVE SplitComma(_, _)
SplitComma(text, lo) ==
  LET i == NextComma(text, lo)
  IN  IF i = 0 THEN <<SubSeq(text, lo, Len(text))>>
      ELSE <<SubSeq(text, lo, i - 1)>> \o SplitComma(text, i + 1)

\* part.replace(new RegExp(`\\b${welsh}\\b`, 'gi'), english) for every month
ReplaceWelshMonths(text) ==
  [i \in 1..Len(text) |->
     IF text[i] \in DOMAIN welshToEnglishMonths
     THEN welshToEnglishMonths[text[i]] ELSE text[i]]

\* part.replace(/(\d+)(st|nd|rd|th)/i, '$1'): the first match only
StripOrdinal(text) ==
  LET c == {i \in 1..Len(text) : text[i] \in DOMAIN OrdinalDigits}
      first == IF c = {} THEN 0 ELSE CHOOSE i \in c : \A k \in c : i <= k
  IN  [i \in 1..Len(text) |-> IF i = first THEN OrdinalDigits[text[i]] ELSE text[i]]

InvalidDate == [valid |-> FALSE, day |-> 0, month |-> 0, year |-> 0]

\* words of a date string that are numbers or month names
IsDateWord(w) ==
  w \in DOMAIN DayNumbers \/ w \in DOMAIN MonthNumbers \/ w \in DOMAIN YearNumbers

\* text from its first number or month name on: the parser of new Date(string)
\* skips words it does not know while it has read no number
RECURSIVE SkipLeadingWords(_)
SkipLeadingWords(text) ==
  IF text = <<>> \/ IsDateWord(Head(text)) THEN text
  ELSE SkipLeadingWords(Tail(text))

\* new Date(string) in local time, for the day-month-year and month-day-year
\* forms; a string without a number, a word after the first number that is
\* no month name, and the empty string give Invalid Date
ParseDate(text) ==
  LET t == SkipLeadingWords(text)
  IN  IF /\ Len(t) = 3
         /\ t[1] \in DOMAIN DayNumbers
         /\ t[2] \in DOMAIN MonthNumbers
         /\ t[3] \in DOMAIN YearNumbers
      THEN [valid |-> TRUE, day |-> DayNumbers[t[1]], month |-> MonthNumbers[t[2]],
            year |-> YearNumbers[t[3]]]
      ELSE IF /\ Len(t) = 3
              /\ t[1] \in DOMAIN MonthNumbers
              /\ t[2] \in DOMAIN DayNumbers
              /\ t[3] \in DOMAIN YearNumbers
      THEN [valid |-> TRUE, day |-> DayNumbers[t[2]], month |-> MonthNumbers[t[1]],
            year |-> YearNumbers[t[3]]]
      ELSE InvalidDate

\* String(n).padStart(2, '0')
PadStart2(n) == IF n < 10 THEN "0" \o ToString(n) ELSE ToString(n)

\* `${day}/${month}/${year}` of getDate(), getMonth() + 1 and getFullYear()
FormatDate(date) ==
  PadStart2(date.day) \o "/" \o PadStart2(date.month) \o "/" \o ToString(date.year)

\* the for loop over the comma-separated parts: the first part that parses
RECURSIVE FirstValidPart(_, _)
FirstValidPart(parts, i) ==
  IF i > Len(parts) THEN ""
  ELSE LET date == ParseDate(StripOrdinal(ReplaceWelshMonths(parts[i])))
       IN  IF date.valid THEN FormatDate(date) ELSE FirstValidPart(parts, i + 1)

\* variant of formatCourtDate4 that formats the part after the first comma
\* without testing that it parsed
formatCourtDate4Unchecked(courtDatestr) ==
  LET parts == SplitComma(courtDatestr, 1)
      date == ParseDate(StripOrdinal(IF Len(parts) >= 2 THEN parts[2] ELSE <<>>))
  IN  IF date.valid THEN FormatDate(date) ELSE "NaN/NaN/NaN"

\* formatCourtDate of extractDataTemplate4
formatCourtDate4(courtDatestr) ==
  IF HasComma(courtDatestr) THEN FirstValidPart(SplitComma(courtDatestr, 1), 1)
  ELSE ""

\* formatCourtDate of extractDataTemplate4a
formatCourtDate4a(courtDatestr) ==
  IF HasComma(courtDatestr) THEN FirstValidPart(SplitComma(courtDatestr, 1), 1)
  ELSE ""

\* formatCourtDate of extractDataTemplate7
formatCourtDate7(courtDatestr) ==
  IF HasComma(courtDatestr) THEN FirstValidPart(SplitComma(courtDatestr, 1), 1)
  ELSE ""

\* formatCourtDate of extractDataTemplate5
formatCourtDate5(courtDatestr) ==
  IF HasComma(courtDatestr)
  THEN LET parts == SplitComma(courtDatestr, 1)
           candidate == IF parts[2] # <<>> THEN parts[2] ELSE courtDatestr
           first == ParseDate(StripOrdinal(ReplaceWelshMonths(candidate)))
           fallbackDate == IF Len(parts) >= 4 /\ parts[4] # <<>>
                           THEN ParseDate(StripOrdinal(parts[4]))
                           ELSE InvalidDate
           date == IF ~first.valid /\ fallbackDate.valid THEN fallbackDate ELSE first
       IN  IF date.valid THEN FormatDate(date) ELSE ""
  ELSE LET date == ParseDate(StripOrdinal(courtDatestr))
       IN  IF date.valid THEN FormatDate(date) ELSE ""

formatCourtDate(tpl, courtDatestr) ==
  CASE tpl = "template4"  -> formatCourtDate4(courtDatestr)
    [] tpl = "template4a" -> formatCourtDate4a(courtDatestr)
    [] tpl = "template5"  -> formatCourtDate5(courtDatestr)
    [] tpl = "template7"  -> formatCourtDate7(courtDatestr)

(***************************************************************************)
(* Input rows of the row-level specification                               *)
(***************************************************************************)
PC(text) == Cell(<<text>>, TRUE, <<>>, "")           \* <td><p>text</p></td>
PL(lines) == Cell(lines, TRUE, <<>>, "")             \* several <p> lines
HC(text, colspan) == Cell(<<text>>, TRUE, colspan, "")
TC(text) == Cell(<<text>>, FALSE, <<>>, "")          \* <td>text</td>
Blank == Cell(<<>>, FALSE, <<>>, "")                 \* <td></td>
Spacer == Cell(<<>>, FALSE, <<>>, "EmptyCellLayoutStyle")

\* colspan attribute values: absent, "2", "0", "abc", "-2"
ColspanAttrs == {<<>>, <<"2">>, <<"0">>, <<"a", "b", "c">>, <<"-", "2">>}
\* colspan attributes of the first two header cells of an input header row
HeaderColspans ==
  {<<a, <<>>>> : a \in ColspanAttrs} \cup {<<<<>>, <<"2">>>>, <<<<"2">>, <<"2">>>>}

Templates == {"template4", "template4a", "template5", "template7"}

HeaderRows4 ==
  { <<HC(<<"Claim", "Number">>, c[1]), HC(<<"Claimant">>, c[2]), PC(<<"Defendant">>)>> :
      c \in HeaderColspans }

DataRows4 ==
  { <<PC(<<"CL123">>), PC(<<"John", "Smith">>), PC(<<"Jane", "Doe">>)>>,
    <<PC(<<"CL123">>), PC(<<"Acme">>), PC(<<"Evans">>)>>,
    <<PC(<<"PCOL">>), PC(<<"Acme">>), PC(<<"Jane", "Doe">>)>>,
    <<PC(<<"CL456">>), Blank, PC(<<"Acme">>), PC(<<"Evans">>)>>,
    <<Blank, Blank, Blank>>,
    <<PC(<<"Acme">>)>> }

HeaderRows4a ==
  { <<HC(<<"Time">>, c[1]), HC(<<"Claim", "Number", "Claimant">>, c[2]),
      PC(<<"Defendant">>)>> : c \in HeaderColspans }
  \cup { <<PC(<<"Time">>), PL(<<<<"Claim", "Number">>, <<"Claimant">>>>),
           PC(<<"Defendant">>)>> }

ScenarioHeader4a ==
  <<PC(<<"Time">>), PC(<<"Claim", "Number", "Claimant">>), PC(<<"Defendant">>)>>

ScenarioRow4a ==
  <<PC(<<"09:00">>), PL(<<<<"CL123">>, <<"John", "Smith">>>>), PC(<<"Jane", "Doe">>)>>

DataRows4a ==
  { ScenarioRow4a,
    <<PC(<<"09:00">>), PC(<<"CL123">>), PC(<<"John", "Smith">>), PC(<<"Jane", "Doe">>)>>,
    <<PC(<<"09:00">>), PC(<<"CL456">>), PL(<<<<"Acme">>, <<"Evans">>, <<"Doe">>>>)>>,
    <<PC(<<"09:00">>), PC(<<"PCOL">>), PC(<<"Acme">>), PC(<<"Evans">>)>>,
    <<TC(<<"09:00">>), TC(<<"CL456">>), TC(<<"Acme">>)>>,
    <<PC(<<"09:00">>), PC(<<"CL456">>), Blank>>,
    <<PC(<<"09:00">>), PC(<<"CL123">>), PL(<<<<"Acme">>, <<"Homes">>>>), Blank>>,
    <<PC(<<"Acme">>)>> }

HeaderRows5 ==
  { <<HC(<<"Start", "Time">>, c[1]), HC(<<"Duration">>, c[2]), PC(<<"Case", "Details">>),
      PC(<<"Hearing", "Type">>), PC(<<"Hearing", "Channel">>)>> :
      c \in HeaderColspans }
  \cup { <<Spacer, TC(<<"Start", "Time">>), TC(<<"Duration">>), Spacer,
           TC(<<"Case", "Details">>), TC(<<"Hearing", "Type">>),
           TC(<<"Hearing", "Channel">>)>> }

DataRows5 ==
  { <<TC(<<"10:00">>), TC(<<"30", "mins">>),
      TC(<<"CL123", "John", "Smith", "v", "Jane", "Doe">>),
      TC(<<"Possession">>), TC(<<"In", "Person">>)>>,
    <<Blank, Blank, TC(<<"10:00">>), TC(<<"30", "mins">>),
      TC(<<"CL456", "Acme", "-v-", "Evans">>), TC(<<"Possessions">>), Blank>>,
    <<Blank, Blank, Blank, TC(<<"10:00">>), TC(<<"30", "mins">>),
      TC(<<"CL123", "Acme", "Evans">>), TC(<<"possession">>), TC(<<"In", "Person">>)>>,
    <<TC(<<"10:00">>), TC(<<"30", "mins">>),
      TC(<<"CL456", "Acme", "v", "Evans">>), TC(<<"Trial">>), TC(<<"In", "Person">>)>>,
    <<TC(<<"10:00">>), TC(<<"30", "mins">>),
      TC(<<"PCOL", "Acme", "v", "Evans">>), TC(<<"Possession">>), TC(<<"In", "Person">>)>>,
    <<TC(<<"10:00">>), TC(<<"30", "mins">>),
      TC(<<"CL123", "Acme", "versus", "Evans">>), TC(<<"Possession">>), TC(<<"In", "Person">>)>>,
    <<TC(<<"10:00">>), TC(<<"30", "mins">>),
      TC(<<"CL456", "Acme", "v", "Evans", "v", "Doe">>), TC(<<"Possession">>), Blank>>,
    <<Blank, Blank, TC(<<"10:00">>), TC(<<"Possession">>),
      TC(<<"CL123", "Acme", "v", "Evans">>), TC(<<"Possession">>), TC(<<"In", "Person">>)>>,
    <<TC(<<"Party", "Name">>), TC(<<"Acme">>), TC(<<"Evans">>), TC(<<"Possession">>)>>,
    <<Blank, Blank>>,
    <<TC(<<"Acme">>)>> }

HeaderRows7 ==
  { <<HC(<<"Time">>, c[1]), HC(<<"Case", "Ref">>, c[2]), PC(<<"Duration">>),
      PC(<<"Case", "Name">>), PC(<<"Case", "Type">>), PC(<<"Hearing", "Type">>),
      PC(<<"Hearing", "Platform">>)>> :
      c \in HeaderColspans }

DataRows7 ==
  { <<TC(<<"10:00">>), TC(<<"CL123">>), TC(<<"30", "mins">>),
      TC(<<"John", "Smith", "v", "Jane", "Doe">>), TC(<<"Possession">>),
      TC(<<"Hearing">>), TC(<<"In", "Person">>)>>,
    <<TC(<<"10:00">>), TC(<<"CL456">>), TC(<<"30", "mins">>),
      TC(<<"Acme", "Evans">>), TC(<<"Trial">>), TC(<<"Hearing">>), Blank>>,
    <<TC(<<"10:00">>), TC(<<"PCOL">>), TC(<<"30", "mins">>),
      TC(<<"Acme", "vs", "Evans">>), TC(<<"possession">>), TC(<<"Hearing">>),
      TC(<<"In", "Person">>)>>,
    <<TC(<<"10:00">>), TC(<<"CL456">>), TC(<<"30", "mins">>),
      TC(<<"Acme", "Evans">>), TC(<<"Possession">>), TC(<<"Hearing">>), Blank>>,
    <<TC(<<"10:00">>), TC(<<"CL123">>), TC(<<"30", "mins">>),
      TC(<<"Acme", "v", "Evans", "v", "Doe">>), TC(<<"Possession">>), TC(<<"Hearing">>),
      Blank>>,
    <<TC(<<"10:00">>), TC(<<"CL456">>), TC(<<"30", "mins">>),
      TC(<<"John", "Smith", "Versus", "Jane", "Doe">>), TC(<<"Poss">>), TC(<<"Hearing">>),
      TC(<<"In", "Person">>)>>,
    <<Blank, Blank, Blank>>,
    <<TC(<<"Acme">>)>> }

RowsOf(tpl) ==
  CASE tpl = "template4"  -> HeaderRows4 \cup DataRows4
    [] tpl = "template4a" -> HeaderRows4a \cup DataRows4a
    [] tpl = "template5"  -> HeaderRows5 \cup DataRows5
    [] tpl = "template7"  -> HeaderRows7 \cup DataRows7

(***************************************************************************)
(* Row-level specification: one extractor call, row by row                 *)
(***************************************************************************)
\* "Tuesday, 18th October 2024"
ScenarioDate == <<"Tuesday", ",", "18th", "October", "2024">>

NoDoc == [title |-> <<>>, paras |-> <<>>, tables |-> <<>>]

\* the output file before fs.writeFileSync
NoFile == [written |-> FALSE, lines |-> <<>>]

\* the variables of the other specifications, and their idle values
csvVars == <<csvData, csvFile>>

CsvIdle == csvData = <<>> /\ csvFile = NoFile

navVars == <<links, linkIndex, navPage, attempt, navPc, gotoSucceeded,
             browserOpen, htmlFiles>>

NavIdle ==
  /\ links = 0 /\ linkIndex = 0 /\ navPage = "list" /\ attempt = 0
  /\ navPc = "idle" /\ gotoSucceeded = FALSE /\ browserOpen = FALSE
  /\ htmlFiles = 0

accVars == <<currentCase, lastTime>>

AccIdle == currentCase = <<>> /\ lastTime = <<>>

extraVars == <<csvVars, navVars, accVars>>

ExtraIdle == CsvIdle /\ NavIdle /\ AccIdle

MainIdle ==
  /\ allData = <<>> /\ fileCount = 0 /\ lastDoc = NoDoc /\ lastTemplate = "none"
  /\ lastExtracted = <<>> /\ lastData = <<>> /\ fileOf = <<>>
  /\ unprocessed = <<>> /\ checked = <<>> /\ saved = <<>>

mainVars == <<allData, fileCount, lastDoc, lastTemplate, lastExtracted,
              lastData, fileOf, unprocessed, checked, saved>>

InitRows ==
  /\ mode = "rows"
  /\ template \in Templates
  /\ headersIndex = EmptyIndex
  /\ data = <<>>
  /\ rowCount = 0
  /\ lastRow = <<>>
  /\ headerRow = <<>>
  /\ prevIndex = EmptyIndex
  /\ lastKind = "start"
  /\ headerRows = 0
  /\ courtDate = ScenarioDate
  /\ courtDates = <<>>
  /\ MainIdle
  /\ ExtraIdle

\* one iteration of rows.each on row
IterateRow(tpl, row) ==
  /\ mode \in {"rows", "dates"}
  /\ template = tpl
  /\ lastKind # "returned"
  /\ rowCount < MaxRows
  /\ LET s == extractRow(tpl, row, headersIndex)
     IN  /\ headersIndex' = s.hi
         /\ data' = data \o s.out
         /\ lastKind' = s.kind
         /\ headerRows' = IF s.kind = "header" THEN headerRows + 1 ELSE headerRows
         /\ headerRow' = IF s.kind = "header" THEN row ELSE headerRow
         /\ courtDates' = courtDates \o [k \in 1..Len(s.out) |->
                                          formatCourtDate(tpl, courtDate)]
  /\ rowCount' = rowCount + 1
  /\ lastRow' = row
  /\ prevIndex' = headersIndex
  /\ UNCHANGED <<mode, template, courtDate>>
  /\ UNCHANGED mainVars
  /\ UNCHANGED extraVars

RowTemplate4 == \E row \in RowsOf("template4") : IterateRow("template4", row)
RowTemplate4a == \E row \in RowsOf("template4a") : IterateRow("template4a", row)
RowTemplate5 == \E row \in RowsOf("template5") : IterateRow("template5", row)
RowTemplate7 == \E row \in RowsOf("template7") : IterateRow("template7", row)

\* rows.each is over: the extractor returns data
ReturnData ==
  /\ mode \in {"rows", "dates"}
  /\ lastKind # "returned"
  /\ lastKind' = "returned"
  /\ UNCHANGED <<mode, template, headersIndex, data, rowCount, lastRow, headerRow,
                 prevIndex, headerRows, courtDate, courtDates>>
  /\ UNCHANGED mainVars
  /\ UNCHANGED extraVars

NextRows ==
  \/ RowTemplate4
  \/ RowTemplate4a
  \/ RowTemplate5
  \/ RowTemplate7
  \/ ReturnData

SpecRows == InitRows /\ [][NextRows]_vars

(***************************************************************************)
(* Documents                                                               *)
(*   title   text of <title>                                               *)
(*   paras   texts of the <p> elements outside tables, in document order   *)
(*   tables  the <table> elements, each a sequence of rows of cells        *)
(* Adjacent elements are separated by whitespace in the markup, so the     *)
(* text of an element is the concatenation of the words of its children.   *)
(***************************************************************************)
Doc(title, paras, tables) == [title |-> title, paras |-> paras, tables |-> tables]

RowText(row) == Flatten([j \in 1..Len(row) |-> CellText(row[j])])

\* $(table).text()
TableText(tbl) == Flatten([r \in 1..Len(tbl) |-> RowText(tbl[r])])

\* $('body').text()
BodyText(doc) ==
  Flatten(doc.paras) \o Flatten([t \in 1..Len(doc.tables) |-> TableText(doc.tables[t])])

\* $('table').find('th, td'): every cell of every table
AllCells(doc) ==
  UNION { UNION { {doc.tables[t][r][j] : j \in 1..Len(doc.tables[t][r])} :
                  r \in 1..Len(doc.tables[t]) } : t \in 1..Len(doc.tables) }

\* text.includes(word) for one lower-case word: the words containing it
Includes(text, words) ==
  \E t \in {text} : \E i \in 1..Len(t) : Lower(t[i]) \in words

\* /case\s*ref/i
CaseRefToken(text) == HasSeq(text, <<"case", "ref">>) \/ HasSeq(text, <<"caseref">>)

\* /case\s*name/i
CaseNameToken(text) == HasSeq(text, <<"case", "name">>) \/ HasSeq(text, <<"casename">>)

\* /Court\s*Room\s*7/i
CourtRoom7Token(text) ==
  \/ HasSeq(text, <<"court", "room", "7">>) \/ HasSeq(text, <<"courtroom", "7">>)
  \/ HasSeq(text, <<"court", "room7">>) \/ HasSeq(text, <<"courtroom7">>)

\* /(hearing room|deputy district judge|sitting at|court room|magistrates court)/i
GenericKeywords(text) ==
  \/ HasSeq(text, <<"hearing", "room">>)
  \/ HasSeq(text, <<"deputy", "district", "judge">>)
  \/ HasSeq(text, <<"sitting", "at">>)
  \/ HasSeq(text, <<"court", "room">>)
  \/ HasSeq(text, <<"magistrates", "court">>)

\* variant of the composite signal without the combined claim-number header
compositeSignalNoClaimHeader(doc) ==
  LET isCourtServePage == Includes(normalizeText(doc.title), {"courtserve", "courtserve:"})
      hasTimeHeader ==
        \E c \in AllCells(doc) : normalizeText(CellText(c)) = <<"time">>
      hasDefendantHeader ==
        \E c \in AllCells(doc) : Includes(CellText(c), {"defendant", "defendants"})
      hasGenericKeywords == GenericKeywords(BodyText(doc))
  IN  isCourtServePage /\ hasTimeHeader /\ hasDefendantHeader /\ hasGenericKeywords

\* isCourtServePage && hasTimeHeader && hasClaimNumberClaimantHeader &&
\* hasDefendantHeader && hasGenericKeywords
compositeSignal(doc) ==
  LET isCourtServePage == Includes(normalizeText(doc.title), {"courtserve", "courtserve:"})
      hasTimeHeader ==
        \E c \in AllCells(doc) : normalizeText(CellText(c)) = <<"time">>
      hasClaimNumberClaimantHeader ==
        \E c \in AllCells(doc) :
          /\ HasSeq(normalizeText(CellText(c)), <<"claim", "number">>)
          /\ Includes(CellText(c), {"claimant", "claimants"})
      hasDefendantHeader ==
        \E c \in AllCells(doc) : Includes(CellText(c), {"defendant", "defendants"})
      hasGenericKeywords == GenericKeywords(BodyText(doc))
  IN  /\ isCourtServePage /\ hasTimeHeader /\ hasClaimNumberClaimantHeader
      /\ hasDefendantHeader /\ hasGenericKeywords

\* the template7 test of identifyTemplate
hasCaseRefLayout(textContent) ==
  CaseRefToken(textContent) /\ CaseNameToken(textContent)

\* the template5 test of identifyTemplate
hasPossessionHeaders(textContent) ==
  /\ StartTimeToken(textContent)
  /\ DurationToken(textContent)
  /\ CaseDetailToken(textContent)
  /\ HearingTypeToken(textContent)
  /\ HearingChannelToken(textContent)

\* the template4 test of identifyTemplate
hasSimpleClaimFragments(textContent) ==
  /\ ClaimNumberToken(textContent)
  /\ HasSeq(textContent, <<"nottingham">>)
  /\ HasSeq(textContent, <<"wigham">>)
  /\ CourtRoom7Token(textContent)

\* variant of identifyTemplate that tests the template5 headers first
identifyTemplatePossessionFirst(doc) ==
  LET textContent == normalizeText(BodyText(doc))
  IN  IF hasPossessionHeaders(textContent) THEN "template5"
      ELSE IF hasCaseRefLayout(textContent) THEN "template7"
      ELSE IF hasSimpleClaimFragments(textContent) THEN "template4"
      ELSE IF compositeSignal(doc) \/ ClaimNumberToken(textContent)
      THEN "template4a"
      ELSE "none"

\* variant of identifyTemplate that falls back to template4a instead of null
identifyTemplateFallback4a(doc) ==
  LET textContent == normalizeText(BodyText(doc))
  IN  IF hasCaseRefLayout(textContent) THEN "template7"
      ELSE IF hasPossessionHeaders(textContent) THEN "template5"
      ELSE IF hasSimpleClaimFragments(textContent) THEN "template4"
      ELSE "template4a"

identifyTemplate(doc) ==
  LET textContent == normalizeText(BodyText(doc))
  IN  IF hasCaseRefLayout(textContent) THEN "template7"
      ELSE IF hasPossessionHeaders(textContent) THEN "template5"
      ELSE IF hasSimpleClaimFragments(textContent) THEN "template4"
      ELSE IF compositeSignal(doc) \/ ClaimNumberToken(textContent)
      THEN "template4a"
      ELSE "none"

(***************************************************************************)
(* Table locator of scrapeDataFromHtml                                     *)
(***************************************************************************)
\* words of the vocabulary that are not a run of four or more letters/digits
NotAlnum4Words ==
  {"ref", "doe", "not", "in", "at", "v", "vs", "-v-", "-vs-", "09:00", "10:00",
   "30", "7", "|", "a1", "courtserve:"}

\* words of the vocabulary that are not made of letters only
NotAlphaWords ==
  {"cl123", "cl456", "09:00", "10:00", "30", "7", "-v-", "-vs-", "|", "a1",
   "courtserve:"}

\* words of the vocabulary that do not start with a letter
NotAlphaStartWords == {"09:00", "10:00", "30", "7", "-v-", "-vs-", "|"}

\* /\b[a-z0-9]{4,}\b\s+[a-z]+\s+[a-z]+/i
hasClaimPattern(text) ==
  \E t \in {text} : \E i \in 1..(Len(t) - 2) :
    /\ Lower(t[i]) \notin NotAlnum4Words
    /\ Lower(t[i + 1]) \notin NotAlphaWords
    /\ Lower(t[i + 2]) \notin NotAlphaStartWords

\* the filter predicate of $('table').filter(...) for layout tpl
isCandidateTable(tpl, tbl) ==
  LET tableText == normalizeText(TableText(tbl))
  IN  CASE tpl = "template4" ->
             /\ ClaimNumberToken(tableText)
             /\ Includes(tableText, {"claimant", "claimants", "applicant", "petitioner"})
        [] tpl = "template4a" ->
             \/ HasSeq(tableText, <<"time", "claim", "number", "claimant", "defendant">>)
             \/ HasSeq(tableText, <<"time", "claimnumber", "claimant", "defendant">>)
             \/ hasClaimPattern(tableText)
        [] tpl = "template7" -> CaseRefToken(tableText) /\ CaseNameToken(tableText)
        [] tpl = "template5" ->
             /\ StartTimeToken(tableText)
             /\ DurationToken(tableText)
             /\ CaseDetailToken(tableText)
             /\ HearingTypeToken(tableText)
             /\ HearingChannelToken(tableText)
        [] OTHER -> FALSE

candidateTables(tpl, doc) == SelectSeq(doc.tables, LAMBDA tbl : isCandidateTable(tpl, tbl))

(***************************************************************************)
(* scrapeDataFromHtml                                                      *)
(***************************************************************************)
\* variant of dedupRows that never records a Claim Number as seen
RECURSIVE dedupRowsNoRecord(_, _, _)
dedupRowsNoRecord(rows, seen, acc) ==
  IF rows = <<>> THEN [seen |-> seen, data |-> acc]
  ELSE IF Head(rows).ClaimNumber \in seen
  THEN dedupRowsNoRecord(Tail(rows), seen, acc)
  ELSE dedupRowsNoRecord(Tail(rows), seen, Append(acc, Head(rows)))

\* extractedData.forEach: keep a row unless its Claim Number was seen
RECURSIVE dedupRows(_, _, _)
dedupRows(rows, seen, acc) ==
  IF rows = <<>> THEN [seen |-> seen, data |-> acc]
  ELSE IF Head(rows).ClaimNumber \in seen
  THEN dedupRows(Tail(rows), seen, acc)
  ELSE dedupRows(Tail(rows), seen \cup {Head(rows).ClaimNumber},
                 Append(acc, Head(rows)))

\* variant of scrapeTables with a fresh processedClaimNumbers set per table
RECURSIVE scrapeTablesSetPerTable(_, _, _, _, _)
scrapeTablesSetPerTable(tpl, tables, processedClaimNumbers, acc, extracted) ==
  IF tables = <<>> THEN [data |-> acc, extracted |-> extracted]
  ELSE Only({ Only({ scrapeTablesSetPerTable(tpl, Tail(tables), d.seen, d.data,
                                             extracted \o extractedData) :
                     d \in {dedupRows(extractedData, {}, acc)} }) :
               extractedData \in {extractData(tpl, Head(tables))} })

\* tables.each: extract every candidate table and merge its rows into data
\* (processedTables never holds the current element: the elements are distinct)
RECURSIVE scrapeTables(_, _, _, _, _)
scrapeTables(tpl, tables, processedClaimNumbers, acc, extracted) ==
  IF tables = <<>> THEN [data |-> acc, extracted |-> extracted]
  ELSE Only({ Only({ scrapeTables(tpl, Tail(tables), d.seen, d.data,
                                  extracted \o extractedData) :
                     d \in {dedupRows(extractedData, processedClaimNumbers, acc)} }) :
               extractedData \in {extractData(tpl, Head(tables))} })

\* result: the returned data, with the template and the raw extractor output
scrapeDataFromHtml(doc) ==
  Only({ IF tpl = "none"
         THEN [template |-> tpl, data |-> <<>>, extracted |-> <<>>]
         ELSE Only({ IF Len(tables) = 0
                     THEN [template |-> tpl, data |-> <<>>, extracted |-> <<>>]
                     ELSE Only({ [template |-> tpl, data |-> r.data,
                                  extracted |-> r.extracted] :
                                 r \in {scrapeTables(tpl, tables, {}, <<>>, <<>>)} }) :
                     tables \in {candidateTables(tpl, doc)} }) :
         tpl \in {identifyTemplate(doc)} })

(***************************************************************************)
(* Input documents of the batch specification                              *)
(***************************************************************************)
Header4 == <<PC(<<"Claim", "Number">>), PC(<<"Claimant">>), PC(<<"Defendant">>)>>

Header5 ==
  <<TC(<<"Start", "Time">>), TC(<<"Duration">>), TC(<<"Case", "Details">>),
    TC(<<"Hearing", "Type">>), TC(<<"Hearing", "Channel">>)>>

Header7 ==
  <<TC(<<"Time">>), TC(<<"Case", "Ref">>), TC(<<"Duration">>), TC(<<"Case", "Name">>),
    TC(<<"Case", "Type">>), TC(<<"Hearing", "Type">>), TC(<<"Hearing", "Platform">>)>>

\* two rows of one table share the claim number CL123
Table4A ==
  <<Header4,
    <<PC(<<"CL123">>), PC(<<"John", "Smith">>), PC(<<"Jane", "Doe">>)>>,
    <<PC(<<"CL456">>), PC(<<"Acme">>), PC(<<"Jane", "Doe">>)>>,
    <<PC(<<"CL123">>), PC(<<"Acme">>), PC(<<"Evans">>)>> >>

Table4B ==
  <<Header4,
    <<PC(<<"PCOL">>), PC(<<"Acme">>), PC(<<"Jane", "Doe">>)>>,
    <<PC(<<"CL456">>), PC(<<"Acme">>), PC(<<"Evans">>)>> >>

Table4a ==
  <<ScenarioHeader4a,
    <<PC(<<"09:00">>), PC(<<"CL123">>), PC(<<"John", "Smith">>), PC(<<"Jane", "Doe">>)>>,
    ScenarioRow4a>>

Table5 ==
  <<Header5,
    <<TC(<<"10:00">>), TC(<<"30", "mins">>),
      TC(<<"CL123", "John", "Smith", "v", "Jane", "Doe">>),
      TC(<<"Possession">>), TC(<<"In", "Person">>)>>,
    <<TC(<<"10:00">>), TC(<<"30", "mins">>),
      TC(<<"CL456", "Acme", "v", "Evans">>), TC(<<"Trial">>), TC(<<"In", "Person">>)>> >>

Table7 ==
  <<Header7,
    <<TC(<<"10:00">>), TC(<<"CL123">>), TC(<<"30", "mins">>),
      TC(<<"John", "Smith", "v", "Jane", "Doe">>), TC(<<"Possession">>),
      TC(<<"Hearing">>), TC(<<"In", "Person">>)>>,
    <<TC(<<"10:00">>), TC(<<"PCOL">>), TC(<<"30", "mins">>),
      TC(<<"Acme", "vs", "Evans">>), TC(<<"possession">>), TC(<<"Hearing">>),
      TC(<<"In", "Person">>)>> >>

\* a layout table without any header word
Decoy == << <<TC(<<"Acme">>)>> >>

\* a hearing table whose header names no claim number
TableNoClaim ==
  << <<PC(<<"Time">>), PC(<<"Claimant">>), PC(<<"Defendant">>)>>,
     <<PC(<<"09:00">>), PC(<<"Acme">>), PC(<<"Evans">>)>> >>

TableLists ==
  { <<>>, <<Decoy>>, <<Table4A>>, <<Table4A, Table4B>>, <<Table4B, Table4A>>,
    <<Table4a>>, <<Table4a, Table4a>>, <<Table5>>, <<Decoy, Table5>>,
    <<Table7>>, <<Table7, Table5>>, <<Table5, Table4a>>, <<TableNoClaim>> }

ParaLists ==
  { <<>>,
    << <<"Case", "Ref">>, <<"Case", "Name">> >>,
    << <<"Start", "Time", "Duration", "Case", "Details", "Hearing", "Type",
         "Hearing", "Channel">> >>,
    << <<"Claim", "Number">> >>,
    << <<"Sitting", "At", "Nottingham">>, <<"Wigham">>, <<"Court", "Room", "7">> >>,
    << <<"Sitting", "At", "Nottingham">> >> }

Titles ==
  { <<"CourtServe:", "Nottingham", "County", "Court">>, <<"Hearing", "List">> }

Docs == { Doc(t, p, ts) : t \in Titles, p \in ParaLists, ts \in TableLists }

\* scrapeDataFromHtml depends on the file's content only: its result per document
scrapeResults == [doc \in Docs |-> scrapeDataFromHtml(doc)]

(***************************************************************************)
(* Batch specification: main()                                             *)
(***************************************************************************)
RowsIdle ==
  /\ template = "none" /\ headersIndex = EmptyIndex /\ data = <<>>
  /\ rowCount = 0 /\ lastRow = <<>> /\ headerRow = <<>> /\ prevIndex = EmptyIndex
  /\ lastKind = "start" /\ headerRows = 0
  /\ courtDate = <<>> /\ courtDates = <<>>

rowVars == <<template, headersIndex, data, rowCount, lastRow, headerRow, prevIndex,
            lastKind, headerRows, courtDate, courtDates>>

Init ==
  /\ mode = "main"
  /\ RowsIdle
  /\ MainIdle
  /\ ExtraIdle

\* variant of ProcessFile that moves every file to checked_files
ProcessFileAlwaysChecked(doc) ==
  /\ mode = "main"
  /\ fileCount < MaxFiles
  /\ LET fileData == scrapeResults[doc]
         file == fileCount + 1
     IN  /\ lastDoc' = doc
         /\ lastTemplate' = fileData.template
         /\ lastExtracted' = fileData.extracted
         /\ lastData' = fileData.data
         /\ fileCount' = file
         /\ allData' = allData \o fileData.data
         /\ fileOf' = fileOf \o [i \in 1..Len(fileData.data) |-> file]
         /\ checked' = Append(checked, file)
         /\ UNCHANGED unprocessed
  /\ UNCHANGED <<mode, saved>>
  /\ UNCHANGED rowVars
  /\ UNCHANGED extraVars

\* variant of the iteration whose classifier keeps the match of the previous
\* call (a sticky regular expression): the template matched last time is
\* not matched again by the next call
ProcessFileStickyClassifier(doc) ==
  /\ mode = "main"
  /\ fileCount < MaxFiles
  /\ LET sticky == fileCount > 0 /\ lastTemplate # "none"
                      /\ lastTemplate = scrapeResults[doc].template
         fileData == IF sticky THEN [template |-> "none", data |-> <<>>, extracted |-> <<>>]
                     ELSE scrapeResults[doc]
         file == fileCount + 1
     IN  /\ lastDoc' = doc
         /\ lastTemplate' = fileData.template
         /\ lastExtracted' = fileData.extracted
         /\ lastData' = fileData.data
         /\ fileCount' = file
         /\ IF Len(fileData.data) = 0
            THEN /\ unprocessed' = Append(unprocessed, file)
                 /\ UNCHANGED <<allData, fileOf, checked>>
            ELSE /\ allData' = allData \o fileData.data
                 /\ fileOf' = fileOf \o [i \in 1..Len(fileData.data) |-> file]
                 /\ checked' = Append(checked, file)
                 /\ UNCHANGED unprocessed
  /\ UNCHANGED <<mode, saved>>
  /\ UNCHANGED rowVars
  /\ UNCHANGED extraVars

\* one iteration of readdirSync(...).forEach on an .html file holding doc
ProcessFile(doc) ==
  /\ mode = "main"
  /\ fileCount < MaxFiles
  /\ LET fileData == scrapeResults[doc]
         file == fileCount + 1
     IN  /\ lastDoc' = doc
         /\ lastTemplate' = fileData.template
         /\ lastExtracted' = fileData.extracted
         /\ lastData' = fileData.data
         /\ fileCount' = file
         /\ IF Len(fileData.data) = 0
            THEN /\ unprocessed' = Append(unprocessed, file)
                 /\ UNCHANGED <<allData, fileOf, checked>>
            ELSE /\ allData' = allData \o fileData.data
                 /\ fileOf' = fileOf \o [i \in 1..Len(fileData.data) |-> file]
                 /\ checked' = Append(checked, file)
                 /\ UNCHANGED unprocessed
  /\ UNCHANGED <<mode, saved>>
  /\ UNCHANGED rowVars
  /\ UNCHANGED extraVars

\* the directory is exhausted: save all data when there is any
FinishMain ==
  /\ mode = "main"
  /\ mode' = "done"
  /\ saved' = IF Len(allData) > 0 THEN allData ELSE <<>>
  /\ UNCHANGED <<allData, fileCount, lastDoc, lastTemplate, lastExtracted,
                 lastData, fileOf, unprocessed, checked>>
  /\ UNCHANGED rowVars
  /\ UNCHANGED extraVars

Next ==
  \/ \E doc \in Docs : ProcessFile(doc)
  \/ FinishMain

Spec == Init /\ [][Next]_vars

(***************************************************************************)
(* Date specification: one extractor call on a short table, for every raw  *)
(* court date scrapeDataFromHtml may pass                                  *)
(***************************************************************************)
\* "15th November 2024"
CommaFreeDate == <<"15th", "November", "2024">>

RawDates ==
  { ScenarioDate,
    CommaFreeDate,
    <<"Friday", ",", "1st", "Tachwedd", "2024">>,
    <<"1st", "October", "2025">>,
    <<"Tuesday", "18", "October", "2024">>,
    <<>>,
    <<"Court", "list">>,
    <<"Tuesday", ",", "Court", "list">> }

\* the rows of the short table of layout tpl
DateRowsOf(tpl) ==
  CASE tpl = "template4"  -> {Table4A[k] : k \in 1..Len(Table4A)}
    [] tpl = "template4a" -> {Table4a[k] : k \in 1..Len(Table4a)}
    [] tpl = "template5"  -> {Table5[k] : k \in 1..Len(Table5)}
    [] tpl = "template7"  -> {Table7[k] : k \in 1..Len(Table7)}

InitDates ==
  /\ mode = "dates"
  /\ template \in Templates
  /\ headersIndex = EmptyIndex
  /\ data = <<>>
  /\ rowCount = 0
  /\ lastRow = <<>>
  /\ headerRow = <<>>
  /\ prevIndex = EmptyIndex
  /\ lastKind = "start"
  /\ headerRows = 0
  /\ courtDate \in RawDates
  /\ courtDates = <<>>
  /\ MainIdle
  /\ ExtraIdle

\* one iteration of rows.each on a row of the short table
DateRow ==
  /\ mode = "dates"
  /\ \E row \in DateRowsOf(template) : IterateRow(template, row)

\* rows.each is over
DateReturn == mode = "dates" /\ ReturnData

NextDates == DateRow \/ DateReturn

SpecDates == InitDates /\ [][NextDates]_vars

(***************************************************************************)
(* The fetch-and-extract program (src/unnamed/part_000)                    *)
(* Its extractDataTemplate4, 4a and 7 iterate the rows as those above do;  *)
(* its extractDataTemplate5, its formatCourtDate, its identifyTemplate,    *)
(* its template5 table filter and its court-date search differ.            *)
(***************************************************************************)
\* the outcome of a call: a value, or an exception thrown
Returns(v) == [throws |-> FALSE, value |-> v]
Throws == [throws |-> TRUE, value |-> <<>>]

\* formatCourtDate: courtDatestr.split(', ')[1] is undefined when the string
\* holds no comma, and datePart.replace then throws a TypeError; the date is
\* formatted without an isNaN test
formatCourtDateFetch(courtDatestr) ==
  IF ~HasComma(courtDatestr) THEN Throws
  ELSE LET datePart == SplitComma(courtDatestr, 1)[2]
           date == ParseDate(StripOrdinal(datePart))
       IN  IF date.valid THEN Returns(FormatDate(date)) ELSE Returns("NaN/NaN/NaN")

\* /case\s*details/i
CaseDetailsToken(text) ==
  HasSeq(text, <<"case", "details">>) \/ HasSeq(text, <<"casedetails">>)

\* header-cell branch of extractDataTemplate5
HeaderAssign5Fetch(headerText, logicalIndex, hi) ==
  IF FullMatch(headerText, {<<"start", "time">>, <<"starttime">>})
  THEN Put(hi, "startTime", logicalIndex)
  ELSE IF FullMatch(headerText, {<<"duration">>})
  THEN Put(hi, "duration", logicalIndex)
  ELSE IF FullMatch(headerText, {<<"case", "details">>, <<"casedetails">>})
  THEN Put(hi, "caseDetails", logicalIndex)
  ELSE IF FullMatch(headerText, {<<"hearing", "type">>, <<"hearingtype">>})
  THEN Put(hi, "hearingType", logicalIndex)
  ELSE IF FullMatch(headerText, {<<"hearing", "channel">>, <<"hearingchannel">>})
  THEN Put(hi, "hearingChannel", logicalIndex)
  ELSE hi

\* the dataCells.each loop of extractDataTemplate5
RECURSIVE MapHeaders5Fetch(_, _, _)
MapHeaders5Fetch(cells, logicalIndex, hi) ==
  IF cells = <<>> THEN hi
  ELSE Only({ MapHeaders5Fetch(Tail(cells), n.logicalIndex, n.hi) :
               n \in { [logicalIndex |-> logicalIndex + ColspanOf(Head(cells)),
                        hi |-> HeaderAssign5Fetch(normalizeText(CellText(Head(cells))),
                                                  logicalIndex, hi)] } })

\* cellsText.some(text => /^start\s*time$/i.test(normalizeText(text)))
isHeaderRow5Fetch(cellsText) ==
  \E j \in 1..Len(cellsText) :
    FullMatch(cellsText[j], {<<"start", "time">>, <<"starttime">>})

\* extractDataTemplate5: one iteration of rows.each, up to formatCourtDate
extractRow5Fetch(row, hi) ==
  LET dataCells == DataCells(row)
      cellsText == [j \in 1..Len(dataCells) |-> CellText(dataCells[j])]
      hearingType == At0(cellsText, 5)
      duration == At0(cellsText, 3)
      caseDetails0 == At0(cellsText, 4)
      hearingChannel == At0(cellsText, 6)
      claimNumber == IF caseDetails0 = <<>> THEN <<>> ELSE <<caseDetails0[1]>>
      caseDetails == StripLeadingToken(caseDetails0)
      hasV == FirstSep(caseDetails, {"v", "vs"}, 2) # 0
      hasDash == FirstSep(caseDetails, {"-v-", "-vs-"}, 2) # 0
      parts == IF hasDash THEN SplitOn(caseDetails, {"-v-", "-vs-"})
               ELSE SplitOn(caseDetails, {"v", "vs"})
      claimant == IF hasV \/ hasDash THEN StripPipes(parts.first) ELSE NotProvided
      defendant == IF hasV \/ hasDash THEN StripPipes(parts.third) ELSE NotProvided
  IN  IF isPartyRow5(cellsText)
      THEN Step(hi, <<>>, "skipped")
      ELSE IF isHeaderRow5Fetch(cellsText)
      THEN Step(MapHeaders5Fetch(dataCells, 0, hi), <<>>, "header")
      ELSE IF isDataRow(cellsText, hi)
      THEN IF \A j \in 1..Len(cellsText) : cellsText[j] = <<>>
           THEN Step(hi, <<>>, "empty")
           ELSE IF ~IsPossession(hearingType)
           THEN Step(hi, <<>>, "filtered")
           ELSE IF claimNumber = <<"PCOL">>
           THEN Step(hi, <<>>, "filtered")
           ELSE Step(hi, <<Record(OrElse(claimNumber, NotProvided),
                                  OrElse(claimant, NotProvided),
                                  OrElse(defendant, NotProvided),
                                  OrElse(duration, NotProvided),
                                  OrElse(hearingType, NotProvided),
                                  OrElse(hearingChannel, NotProvided))>>,
                     "data")
      ELSE Step(hi, <<>>, "skipped")

\* one iteration of rows.each of the extractor of layout tpl, up to formatCourtDate
extractRowFetch(tpl, row, hi) ==
  CASE tpl = "template4"  -> extractRow4(row, hi)
    [] tpl = "template4a" -> extractRow4a(row, hi)
    [] tpl = "template5"  -> extractRow5Fetch(row, hi)
    [] tpl = "template7"  -> extractRow7(row, hi)

\* rowData with its 'Court Date'
WithCourtDate(rec, formatted) ==
  [f \in (DOMAIN rec) \cup {"CourtDate"} |->
     IF f = "CourtDate" THEN formatted ELSE rec[f]]

\* a whole extractor call; the exception of formatCourtDate leaves rows.each
\* and the extractor
RECURSIVE extractRowsFetch(_, _, _, _, _)
extractRowsFetch(tpl, rows, hi, acc, courtDatestr) ==
  IF rows = <<>> THEN Returns(acc)
  ELSE Only({ IF s.out = <<>>
              THEN extractRowsFetch(tpl, Tail(rows), s.hi, acc, courtDatestr)
              ELSE Only({ IF d.throws THEN Throws
                          ELSE extractRowsFetch(tpl, Tail(rows), s.hi,
                                 Append(acc, WithCourtDate(s.out[1], d.value)),
                                 courtDatestr) :
                          d \in {formatCourtDateFetch(courtDatestr)} }) :
              s \in {extractRowFetch(tpl, Head(rows), hi)} })

\* the weekday names of datePattern
Weekdays ==
  {"monday", "tuesday", "wednesday", "thursday", "friday", "saturday", "sunday"}

\* words of the vocabulary that hold a character outside \w
NonWordTokens == {",", "|", "09:00", "10:00", "CourtServe:", "-v-", "-vs-"}

\* /^(Monday|...|Sunday),\s+\d{1,2}(?:st|nd|rd|th)?\s+\w+\s+\d{4}$/i
datePattern(text) ==
  /\ Len(text) = 5
  /\ Lower(text[1]) \in Weekdays
  /\ text[2] = ","
  /\ text[3] \in (DOMAIN DayNumbers) \cup (DOMAIN OrdinalDigits)
  /\ text[4] \notin NonWordTokens
  /\ text[5] \in DOMAIN YearNumbers

\* $('p').each: courtDate is the text of the last <p> that matches datePattern
RECURSIVE findCourtDate(_, _)
findCourtDate(paras, courtDatestr) ==
  IF paras = <<>> THEN courtDatestr
  ELSE findCourtDate(Tail(paras),
                     IF datePattern(Head(paras)) THEN Head(paras) ELSE courtDatestr)

\* the template5 test of identifyTemplate
hasPossessionHeadersFetch(textContent) ==
  /\ StartTimeToken(textContent)
  /\ DurationToken(textContent)
  /\ CaseDetailsToken(textContent)
  /\ HearingTypeToken(textContent)
  /\ HearingChannelToken(textContent)

identifyTemplateFetch(doc) ==
  LET textContent == normalizeText(BodyText(doc))
  IN  IF hasCaseRefLayout(textContent) THEN "template7"
      ELSE IF hasPossessionHeadersFetch(textContent) THEN "template5"
      ELSE IF hasSimpleClaimFragments(textContent) THEN "template4"
      ELSE IF compositeSignal(doc) \/ ClaimNumberToken(textContent)
      THEN "template4a"
      ELSE "none"

\* the filter predicate of $('table').filter(...) for layout tpl
isCandidateTableFetch(tpl, tbl) ==
  IF tpl = "template5"
  THEN hasPossessionHeadersFetch(normalizeText(TableText(tbl)))
  ELSE isCandidateTable(tpl, tbl)

candidateTablesFetch(tpl, doc) ==
  SelectSeq(doc.tables, LAMBDA tbl : isCandidateTableFetch(tpl, tbl))

\* tables.each: extract every candidate table and merge its rows into data
RECURSIVE scrapeTablesFetch(_, _, _, _, _)
scrapeTablesFetch(tpl, tables, processedClaimNumbers, acc, courtDatestr) ==
  IF tables = <<>> THEN Returns(acc)
  ELSE Only({ IF e.throws THEN Throws
              ELSE Only({ scrapeTablesFetch(tpl, Tail(tables), d.seen, d.data,
                                            courtDatestr) :
                          d \in {dedupRows(e.value, processedClaimNumbers, acc)} }) :
              e \in {extractRowsFetch(tpl, Head(tables), EmptyIndex, <<>>,
                                      courtDatestr)} })

\* scrapeDataFromHtml: the returned data, or the exception that leaves it
scrapeDataFromHtmlFetch(doc) ==
  Only({ IF tpl = "none" THEN Returns(<<>>)
         ELSE Only({ IF Len(tables) = 0 THEN Returns(<<>>)
                     ELSE scrapeTablesFetch(tpl, tables, {}, <<>>,
                                            findCourtDate(doc.paras, <<>>)) :
                     tables \in {candidateTablesFetch(tpl, doc)} }) :
         tpl \in {identifyTemplateFetch(doc)} })

\* "Tuesday, 18th Hydref 2024"
WelshMonthDate == <<"Tuesday", ",", "18th", "Hydref", "2024">>

FetchParaLists ==
  { <<>>,
    << ScenarioDate >>,
    << WelshMonthDate >>,
    << CommaFreeDate >>,
    << <<"Sitting", "At", "Nottingham">>, ScenarioDate >>,
    << <<"Claim", "Number">> >> }

\* a template5 table whose rows start with two empty cells
Table5Wide ==
  <<Header5,
    <<Blank, Blank, TC(<<"10:00">>), TC(<<"30", "mins">>),
      TC(<<"CL456", "Acme", "-v-", "Evans">>), TC(<<"Possessions">>), Blank>> >>

FetchTableLists ==
  { <<>>, <<Decoy>>, <<Table4A>>, <<Table4a>>, <<Table5>>, <<Table5Wide>>,
    <<Table7>>, <<Table7, Table5Wide>>, <<Table4B, Table4A>> }

FetchDocs ==
  { Doc(t, p, ts) : t \in Titles, p \in FetchParaLists, ts \in FetchTableLists }

\* scrapeDataFromHtml depends on the file's content only: its outcome per document
fetchResults == [doc \in FetchDocs |-> scrapeDataFromHtmlFetch(doc)]

(***************************************************************************)
(* Fetch specification: main() of the fetch-and-extract program            *)
(***************************************************************************)
InitFetch ==
  /\ mode = "download"
  /\ RowsIdle
  /\ MainIdle
  /\ ExtraIdle

\* await downloadHtmlFiles() returns: the files are in html_files
DownloadDone ==
  /\ mode = "download"
  /\ mode' = "fetch"
  /\ UNCHANGED mainVars
  /\ UNCHANGED rowVars
  /\ UNCHANGED extraVars

\* downloadHtmlFiles throws (no login form, login refused): main ends
DownloadFails ==
  /\ mode = "download"
  /\ mode' = "aborted"
  /\ UNCHANGED mainVars
  /\ UNCHANGED rowVars
  /\ UNCHANGED extraVars

\* one iteration of readdirSync(...).forEach on an .html file holding doc;
\* an exception of scrapeDataFromHtml is caught nowhere and ends main
FetchFile(doc) ==
  /\ mode = "fetch"
  /\ fileCount < MaxFiles
  /\ LET r == fetchResults[doc]
         file == fileCount + 1
     IN  /\ lastDoc' = doc
         /\ lastTemplate' = identifyTemplateFetch(doc)
         /\ fileCount' = file
         /\ IF r.throws
            THEN /\ mode' = "aborted"
                 /\ lastData' = <<>>
                 /\ UNCHANGED <<allData, fileOf, checked, unprocessed>>
            ELSE /\ mode' = mode
                 /\ lastData' = r.value
                 /\ IF Len(r.value) = 0
                    THEN /\ unprocessed' = Append(unprocessed, file)
                         /\ UNCHANGED <<allData, fileOf, checked>>
                    ELSE /\ allData' = allData \o r.value
                         /\ fileOf' = fileOf \o [i \in 1..Len(r.value) |-> file]
                         /\ checked' = Append(checked, file)
                         /\ UNCHANGED unprocessed
  /\ UNCHANGED <<lastExtracted, saved>>
  /\ UNCHANGED rowVars
  /\ UNCHANGED extraVars

\* the directory is exhausted: save all data when there is any
FetchFinish ==
  /\ mode = "fetch"
  /\ mode' = "done"
  /\ saved' = IF Len(allData) > 0 THEN allData ELSE <<>>
  /\ UNCHANGED <<allData, fileCount, lastDoc, lastTemplate, lastExtracted,
                 lastData, fileOf, unprocessed, checked>>
  /\ UNCHANGED rowVars
  /\ UNCHANGED extraVars

NextFetch ==
  \/ DownloadDone
  \/ DownloadFails
  \/ \E doc \in FetchDocs : FetchFile(doc)
  \/ FetchFinish

SpecFetch == InitFetch /\ [][NextFetch]_vars

(***************************************************************************)
(* saveToCsv: the CSV file written from the list of records                *)
(***************************************************************************)
\* the longest list of records handed to saveToCsv
MaxRecords == 2

\* the characters of a field that matter to the CSV syntax, as tokens
QuoteToken == "\""

SpaceToken == " "

\* const headers = [...]
headers ==
  <<"Court Name", "Court Date", "Claim Number", "Claimant", "Defendant",
    "Duration", "Hearing Type", "Hearing Channel", "Title">>

\* row[header] of a record that may lack the key
FieldOf(row, header) == IF header \in DOMAIN row THEN row[header] ELSE Undefined

\* String.prototype.trim: the white space at both ends is dropped
RECURSIVE TrimStart(_)
TrimStart(text) ==
  IF text # <<>> /\ Head(text) = SpaceToken THEN TrimStart(Tail(text)) ELSE text

RECURSIVE TrimEnd(_)
TrimEnd(text) ==
  IF text # <<>> /\ text[Len(text)] = SpaceToken
  THEN TrimEnd(SubSeq(text, 1, Len(text) - 1))
  ELSE text

Trim(text) == TrimEnd(TrimStart(text))

\* a variant of the replacement that leaves the double quotes as they are
KeepQuotes(text) == text

\* cellData.replace(/"/g, '""')
RECURSIVE DoubleQuotes(_)
DoubleQuotes(text) ==
  IF text = <<>> THEN <<>>
  ELSE (IF Head(text) = QuoteToken THEN <<QuoteToken, QuoteToken>>
        ELSE <<Head(text)>>) \o DoubleQuotes(Tail(text))

\* `"${cellData.replace(/"/g, '""')}"` of (row[header] || '').toString().trim()
csvCell(row, header) ==
  <<QuoteToken>> \o DoubleQuotes(Trim(OrElse(FieldOf(row, header), <<>>)))
    \o <<QuoteToken>>

\* Array.prototype.join(',') of a list of texts
RECURSIVE JoinComma(_)
JoinComma(texts) ==
  IF texts = <<>> THEN <<>>
  ELSE IF Len(texts) = 1 THEN texts[1]
  ELSE texts[1] \o <<",">> \o JoinComma(Tail(texts))

\* headers.map(header => ...).join(',')
csvLine(row) == JoinComma([h \in 1..Len(headers) |-> csvCell(row, headers[h])])

\* csvContent, line by line: [headers.join(',')].concat(data.map(...))
csvContent(rows) ==
  <<JoinComma([h \in 1..Len(headers) |-> <<headers[h]>>])>>
    \o [r \in 1..Len(rows) |-> csvLine(rows[r])]

\* a record as the extractors build it
FullRecord ==
  [h \in {headers[i] : i \in 1..Len(headers)} |->
     CASE h = "Court Name" -> <<"Leeds", "County", "Court">>
       [] h = "Court Date" -> <<"18/10/2024">>
       [] h = "Claim Number" -> <<"CL123">>
       [] h = "Claimant" -> <<"Acme">>
       [] h = "Defendant" -> <<"Evans">>
       [] h = "Duration" -> <<"1", "hour">>
       [] h = "Hearing Type" -> <<"Possession">>
       [] h = "Hearing Channel" -> <<"In", "Person">>
       [] OTHER -> <<"Daily", "List">>]

\* the records handed to saveToCsv: complete, with double quotes and commas
\* inside fields, with white space around a field, with empty fields and
\* with keys left out
CsvRecords ==
  { FullRecord,
    [FullRecord EXCEPT !["Claimant"] = <<"Acme", QuoteToken, "Homes", QuoteToken, "Ltd">>],
    [FullRecord EXCEPT !["Defendant"] = <<QuoteToken>>,
                       !["Court Name"] = <<"Leeds", ",", "County">>],
    [FullRecord EXCEPT !["Title"] = <<QuoteToken, QuoteToken, ",", QuoteToken>>,
                       !["Duration"] = <<>>],
    [FullRecord EXCEPT !["Claimant"] = <<SpaceToken, "Acme", SpaceToken, "Ltd", SpaceToken>>,
                       !["Defendant"] = <<SpaceToken>>],
    [h \in {"Claim Number", "Claimant", "Defendant"} |-> FullRecord[h]] }

RECURSIVE ListsOf(_, _)
ListsOf(S, n) ==
  IF n = 0 THEN {<<>>}
  ELSE LET shorter == ListsOf(S, n - 1)
       IN  shorter \cup {Append(l, r) : l \in {s \in shorter : Len(s) = n - 1}, r \in S}

InitCsv ==
  /\ mode = "csv"
  /\ RowsIdle
  /\ MainIdle
  /\ csvData \in ListsOf(CsvRecords, MaxRecords)
  /\ csvFile = NoFile
  /\ NavIdle
  /\ AccIdle

\* saveToCsv(data): nothing is written for an empty list
SaveToCsv ==
  /\ mode = "csv"
  /\ mode' = "saved"
  /\ csvFile' = IF Len(csvData) = 0 THEN NoFile
                ELSE [written |-> TRUE, lines |-> csvContent(csvData)]
  /\ UNCHANGED csvData
  /\ UNCHANGED <<navVars, accVars>>
  /\ UNCHANGED rowVars
  /\ UNCHANGED mainVars

\* saveToCsv(data) when fs.writeFileSync throws: the catch logs the error
SaveToCsvFails ==
  /\ mode = "csv"
  /\ Len(csvData) > 0
  /\ mode' = "failed"
  /\ UNCHANGED <<csvData, csvFile>>
  /\ UNCHANGED <<navVars, accVars>>
  /\ UNCHANGED rowVars
  /\ UNCHANGED mainVars

NextCsv ==
  \/ SaveToCsv
  \/ SaveToCsvFails

SpecCsv == InitCsv /\ [][NextCsv]_vars

(***************************************************************************)
(* downloadHtmlFiles: the link loop and navigateWithRetries                *)
(***************************************************************************)
\* the longest list of links found in the index table
MaxLinks == 2

\* maxRetries = 3
maxRetries == 3

\* what performLogin finds: the user is logged in already, the login
\* succeeds, the login is refused, the login form is not there
LoginOutcomes == {"alreadyLoggedIn", "loginSuccessful", "loginRefused", "formNotFound"}

InitNav ==
  /\ mode = "nav"
  /\ RowsIdle
  /\ MainIdle
  /\ CsvIdle
  /\ AccIdle
  /\ links \in 0..MaxLinks
  /\ linkIndex = 0
  /\ navPage = "list"
  /\ attempt = 0
  /\ navPc = "loop"
  /\ gotoSucceeded = FALSE
  /\ browserOpen = TRUE
  /\ htmlFiles = 0

\* for (let i = 0; i < links.length; i++): navigateWithRetries(page, link) starts
NextLink ==
  /\ mode = "nav" /\ navPc = "loop"
  /\ linkIndex < links
  /\ navPage' = "list"
  /\ attempt' = 1
  /\ navPc' = "goto"
  /\ gotoSucceeded' = FALSE
  /\ UNCHANGED <<mode, links, linkIndex, browserOpen, htmlFiles>>
  /\ UNCHANGED <<csvVars, accVars, rowVars, mainVars>>

\* the loop is over: await browser.close()
CloseBrowser ==
  /\ mode = "nav" /\ navPc = "loop"
  /\ linkIndex = links
  /\ navPc' = "done"
  /\ browserOpen' = FALSE
  /\ UNCHANGED <<mode, links, linkIndex, navPage, attempt, gotoSucceeded, htmlFiles>>
  /\ UNCHANGED <<csvVars, accVars, rowVars, mainVars>>

\* await page.goto(url, options) resolves: return
GotoSucceeds ==
  /\ mode = "nav" /\ navPc = "goto"
  /\ browserOpen
  /\ navPc' = "returned"
  /\ gotoSucceeded' = TRUE
  /\ UNCHANGED <<mode, links, linkIndex, navPage, attempt, browserOpen, htmlFiles>>
  /\ UNCHANGED <<csvVars, accVars, rowVars, mainVars>>

\* await page.goto(url, options) rejects: the catch block is entered
GotoFails ==
  /\ mode = "nav" /\ navPc = "goto"
  /\ navPc' = "catch"
  /\ UNCHANGED <<mode, links, linkIndex, navPage, attempt, gotoSucceeded,
                 browserOpen, htmlFiles>>
  /\ UNCHANGED <<csvVars, accVars, rowVars, mainVars>>

\* catch block, page.$('#login-form') rejects because the browser is closed:
\* the exception leaves navigateWithRetries
CatchBrowserClosed ==
  /\ mode = "nav" /\ navPc = "catch"
  /\ ~browserOpen
  /\ navPc' = "threw"
  /\ UNCHANGED <<mode, links, linkIndex, navPage, attempt, gotoSucceeded,
                 browserOpen, htmlFiles>>
  /\ UNCHANGED <<csvVars, accVars, rowVars, mainVars>>

\* catch block without a login form: throw error on the last attempt, else
\* the next iteration of the for loop
CatchWithoutLoginForm ==
  /\ mode = "nav" /\ navPc = "catch"
  /\ browserOpen
  /\ IF attempt = maxRetries
     THEN navPc' = "threw" /\ UNCHANGED attempt
     ELSE navPc' = "goto" /\ attempt' = attempt + 1
  /\ UNCHANGED <<mode, links, linkIndex, navPage, gotoSucceeded, browserOpen, htmlFiles>>
  /\ UNCHANGED <<csvVars, accVars, rowVars, mainVars>>

\* catch block with a login form: await performLogin(page); continue.
\* performLogin closes the browser and throws when the login is refused or
\* it finds no form; after the continue the for loop tests attempt <=
\* maxRetries and the function ends when the test fails
CatchWithLoginForm(outcome) ==
  /\ mode = "nav" /\ navPc = "catch"
  /\ browserOpen
  /\ IF outcome \in {"loginRefused", "formNotFound"}
     THEN /\ browserOpen' = FALSE
          /\ navPc' = "threw"
          /\ UNCHANGED attempt
     ELSE /\ UNCHANGED browserOpen
          /\ IF attempt + 1 <= maxRetries
             THEN navPc' = "goto" /\ attempt' = attempt + 1
             ELSE navPc' = "returned" /\ UNCHANGED attempt
  /\ UNCHANGED <<mode, links, linkIndex, navPage, gotoSucceeded, htmlFiles>>
  /\ UNCHANGED <<csvVars, accVars, rowVars, mainVars>>

\* the caller's catch: log the error, continue with the next link
CallerCatches ==
  /\ mode = "nav" /\ navPc = "threw"
  /\ navPc' = "loop"
  /\ linkIndex' = linkIndex + 1
  /\ UNCHANGED <<mode, links, navPage, attempt, gotoSucceeded, browserOpen, htmlFiles>>
  /\ UNCHANGED <<csvVars, accVars, rowVars, mainVars>>

\* after the list page: '#box2 a' does not appear or newTabLink is null
ListPageWithoutTabLink ==
  /\ mode = "nav" /\ navPc = "returned" /\ navPage = "list"
  /\ navPc' = "loop"
  /\ linkIndex' = linkIndex + 1
  /\ UNCHANGED <<mode, links, navPage, attempt, gotoSucceeded, browserOpen, htmlFiles>>
  /\ UNCHANGED <<csvVars, accVars, rowVars, mainVars>>

\* after the list page: browser.newPage(), navigateWithRetries(newPage,
\* newTabLink) starts
OpenTab ==
  /\ mode = "nav" /\ navPc = "returned" /\ navPage = "list"
  /\ browserOpen
  /\ navPage' = "tab"
  /\ attempt' = 1
  /\ navPc' = "goto"
  /\ gotoSucceeded' = FALSE
  /\ UNCHANGED <<mode, links, linkIndex, browserOpen, htmlFiles>>
  /\ UNCHANGED <<csvVars, accVars, rowVars, mainVars>>

\* after the tab page: newPage.content() is written to html_files
SaveTab ==
  /\ mode = "nav" /\ navPc = "returned" /\ navPage = "tab"
  /\ htmlFiles' = htmlFiles + 1
  /\ navPc' = "loop"
  /\ linkIndex' = linkIndex + 1
  /\ UNCHANGED <<mode, links, navPage, attempt, gotoSucceeded, browserOpen>>
  /\ UNCHANGED <<csvVars, accVars, rowVars, mainVars>>

NextNav ==
  \/ NextLink
  \/ CloseBrowser
  \/ GotoSucceeds
  \/ GotoFails
  \/ CatchBrowserClosed
  \/ CatchWithoutLoginForm
  \/ \E outcome \in LoginOutcomes : CatchWithLoginForm(outcome)
  \/ CallerCatches
  \/ ListPageWithoutTabLink
  \/ OpenTab
  \/ SaveTab

SpecNav == InitNav /\ [][NextNav]_vars

(***************************************************************************)
(* extractDataTemplate4a with the currentCase accumulator                  *)
(***************************************************************************)
\* the words "<n>:" that /\w+:/ matches, with the claim number <n>
ClaimColonWords == { <<"A1:", "A1">>, <<"B2:", "B2">> }

ClaimNumberOf(w) == (CHOOSE c \in ClaimColonWords : c[1] = w)[2]

IsClaimColonWord(w) == \E c \in ClaimColonWords : c[1] = w

\* /^(\d{1,2}\.\d{2})$/
TimeTexts == { <<"10.00">>, <<"14.30">> }

\* /^claim\s+\w+:/i
IsNewFormatCell(text) ==
  Len(text) >= 2 /\ Lower(text[1]) = "claim" /\ IsClaimColonWord(text[2])

\* position of the versus of /^Claim\s+(\w+):\s*(.*?)\s+versus\s+(.*)/i,
\* 0 when the text does not match
VersusAt(text) ==
  IF ~IsNewFormatCell(text) THEN 0
  ELSE LET c == {i \in 3..(Len(text) - 1) : Lower(text[i]) = "versus"}
       IN  IF c = {} THEN 0 ELSE CHOOSE i \in c : \A k \in c : i <= k

\* the record pushed for a case
CaseRecord(case) ==
  Record(case.claimNumber, case.claimant, case.defendant,
         NotProvided, NotProvided, NotProvided)

\* variant of the push that drops the open case
PushCaseNever(cur) == <<>>

\* if (currentCase) data.push({...})
PushCase(cur) == IF cur = <<>> THEN <<>> ELSE <<CaseRecord(cur[1])>>

\* cellsText.forEach of the new format, from cell j on
RECURSIVE NewFormatCells(_, _, _)
NewFormatCells(cellsText, j, st) ==
  IF j > Len(cellsText) THEN st
  ELSE LET text == cellsText[j]
           lt == IF text \in TimeTexts THEN text ELSE st.lastTime
           v == VersusAt(text)
           next ==
             IF v = 0 THEN [st EXCEPT !.lastTime = lt]
             ELSE [lastTime |-> lt,
                   out |-> st.out \o PushCase(st.currentCase),
                   currentCase |->
                     << [time |-> lt,
                         claimNumber |-> <<ClaimNumberOf(text[2])>>,
                         claimant |-> SubSeq(text, 3, v - 1),
                         defendant |-> SubSeq(text, v + 1, Len(text))] >>]
       IN  Only({ NewFormatCells(cellsText, j + 1, n) : n \in {next} })

\* the header test of the original format
isHeaderRowAcc(cellsText) ==
  /\ \E j \in 1..Len(cellsText) : FullMatch(cellsText[j], {<<"time">>})
  /\ \E j \in 1..Len(cellsText) : ClaimNumberToken(normalizeText(cellsText[j]))
  /\ \E j \in 1..Len(cellsText) : FullMatch(cellsText[j], {<<"claimant">>})
  /\ \E j \in 1..Len(cellsText) :
       FullMatch(cellsText[j], {<<"defendant">>, <<"respondent">>})

\* header-cell branch of the accumulator variant
HeaderAssignAcc(headerText, logicalIndex, hi) ==
  IF FullMatch(headerText, {<<"time">>})
  THEN Put(hi, "time", logicalIndex)
  ELSE IF FullMatch(headerText, {<<"claim", "number">>, <<"claimnumber">>})
  THEN Put(hi, "claimNumber", logicalIndex)
  ELSE IF FullMatch(headerText, {<<"claimant">>})
  THEN Put(hi, "claimant", logicalIndex)
  ELSE IF FullMatch(headerText, {<<"defendant">>, <<"respondent">>})
  THEN Put(hi, "defendant", logicalIndex)
  ELSE hi

\* the cells.each loop that maps the header cells
RECURSIVE MapHeadersAcc(_, _, _)
MapHeadersAcc(cells, logicalIndex, hi) ==
  IF cells = <<>> THEN hi
  ELSE Only({ MapHeadersAcc(Tail(cells), n.logicalIndex, n.hi) :
               n \in { [logicalIndex |-> logicalIndex + ColspanOf(Head(cells)),
                        hi |-> HeaderAssignAcc(normalizeText(CellText(Head(cells))),
                                               logicalIndex, hi)] } })

\* cellLogicalIndex when the data-row loop reaches cell j
RECURSIVE LogicalStart(_, _)
LogicalStart(cells, j) ==
  IF j <= 1 THEN 0 ELSE LogicalStart(cells, j - 1) + ColspanOf(cells[j - 1])

\* the cells whose logical indices cellLogicalIndex + k, k < colspan, reach
\* the column of field f, in order; the else-if chain gives a column that
\* two fields share to the field tested first
FieldCells(cells, hi, f, earlier) ==
  IF f \notin DOMAIN hi \/ (\E g \in earlier \cap DOMAIN hi : hi[g] = hi[f])
  THEN <<>>
  ELSE SelectSeq([j \in 1..Len(cells) |-> j],
                 LAMBDA j : \E k \in 0..(ColspanOf(cells[j]) - 1) :
                              LogicalStart(cells, j) + k = hi[f])

\* rowData.time, rowData.claimNumber: the last cell assigned wins
AssignedText(cells, js) ==
  IF js = <<>> THEN Undefined ELSE CellText(cells[js[Len(js)]])

\* rowData.claimant, rowData.defendant: the texts are joined with a space
JoinedText(cells, js) ==
  IF js = <<>> THEN Undefined
  ELSE Flatten([i \in 1..Len(js) |-> CellText(cells[js[i]])])

\* the rowData object of a data row
RowData(cells, hi) ==
  [time |-> AssignedText(cells, FieldCells(cells, hi, "time", {})),
   claimNumber |->
     AssignedText(cells, FieldCells(cells, hi, "claimNumber", {"time"})),
   claimant |->
     JoinedText(cells, FieldCells(cells, hi, "claimant", {"time", "claimNumber"})),
   defendant |->
     JoinedText(cells, FieldCells(cells, hi, "defendant",
                                  {"time", "claimNumber", "claimant"}))]

AccStep(hi, out, kind, cur, lt) ==
  [hi |-> hi, out |-> out, kind |-> kind, currentCase |-> cur, lastTime |-> lt]

\* variant of the continuation branch that opens a case when none is open
ContinueCaseOpening(cur, rowData, time) ==
  IF cur = <<>>
  THEN << [time |-> time, claimNumber |-> <<>>,
           claimant |-> OrElse(rowData.claimant, <<>>),
           defendant |-> OrElse(rowData.defendant, <<>>)] >>
  ELSE << [cur[1] EXCEPT
             !.claimant = @ \o OrElse(rowData.claimant, <<>>),
             !.defendant = @ \o OrElse(rowData.defendant, <<>>)] >>

\* the continuation branch: if (currentCase) { claimant += ..., defendant += ... }
ContinueCase(cur, rowData, time) ==
  IF cur = <<>> THEN <<>>
  ELSE << [cur[1] EXCEPT
             !.claimant = @ \o OrElse(rowData.claimant, <<>>),
             !.defendant = @ \o OrElse(rowData.defendant, <<>>)] >>

\* one iteration of rows.each of the accumulator variant
extractRowAcc(row, hi, cur, lt) ==
  LET cellsText == [j \in 1..Len(row) |-> CellText(row[j])]
      rowData == RowData(row, hi)
      hasTime == OrElse(rowData.time, <<>>) # <<>>
      time == IF hasTime THEN rowData.time ELSE lt
  IN  IF \E j \in 1..Len(row) : IsNewFormatCell(cellsText[j])
      THEN LET st == NewFormatCells(cellsText, 1,
                       [lastTime |-> lt, out |-> <<>>, currentCase |-> cur])
           IN  AccStep(hi, st.out, "newFormat", st.currentCase, st.lastTime)
      ELSE IF isHeaderRowAcc(cellsText)
      THEN AccStep(MapHeadersAcc(row, 0, hi), <<>>, "header", cur, lt)
      ELSE IF Len(cellsText) > 0 /\ DOMAIN hi # {}
      THEN IF \A j \in 1..Len(row) : cellsText[j] = <<>>
           THEN AccStep(hi, <<>>, "empty", cur, lt)
           ELSE IF OrElse(rowData.claimNumber, <<>>) # <<>>
           THEN AccStep(hi, PushCase(cur), "start",
                        << [time |-> time,
                            claimNumber |-> rowData.claimNumber,
                            claimant |-> OrElse(rowData.claimant, <<>>),
                            defendant |-> OrElse(rowData.defendant, <<>>)] >>,
                        IF hasTime THEN rowData.time ELSE lt)
           ELSE AccStep(hi, <<>>, "continuation", ContinueCase(cur, rowData, time),
                        IF hasTime THEN rowData.time ELSE lt)
      ELSE AccStep(hi, <<>>, "skipped", cur, lt)

(***************************************************************************)
(* Accumulator specification: one call of the accumulator variant          *)
(***************************************************************************)
HeaderRowsAcc ==
  { <<TC(<<"Time">>), TC(<<"Claim", "Number">>), TC(<<"Claimant">>),
      TC(<<"Defendant">>)>>,
    <<TC(<<"Time">>), TC(<<"Claim", "Number">>), HC(<<"Claimant">>, <<"2">>),
      TC(<<"Defendant">>)>> }

DataRowsAcc ==
  { <<TC(<<"10.00">>), TC(<<"CL123">>), TC(<<"John", "Smith">>), TC(<<"Jane", "Doe">>)>>,
    <<Blank, TC(<<"CL456">>), TC(<<"Acme">>), TC(<<"Evans">>)>>,
    <<TC(<<"14.30">>), TC(<<"CL123">>), HC(<<"Acme">>, <<"2">>), TC(<<"Evans">>)>>,
    <<Blank, Blank, TC(<<"Homes", "Ltd">>), Blank>>,
    <<Blank, Blank, Blank, TC(<<"Doe">>)>>,
    <<Blank, Blank, Blank, Blank>>,
    <<TC(<<"10.00">>), TC(<<"Claim", "A1:", "Acme", "versus", "Evans">>)>>,
    <<TC(<<"Claim", "A1:", "Acme", "versus", "Evans">>),
      TC(<<"Claim", "B2:", "John", "Smith", "Versus", "Jane", "Doe">>)>>,
    <<TC(<<"Claim", "B2:", "Acme", "v", "Evans">>)>> }

InitAcc ==
  /\ mode = "acc"
  /\ template = "template4a"
  /\ headersIndex = EmptyIndex
  /\ data = <<>>
  /\ rowCount = 0
  /\ lastRow = <<>>
  /\ headerRow = <<>>
  /\ prevIndex = EmptyIndex
  /\ lastKind = "start of table"
  /\ headerRows = 0
  /\ courtDate = <<>>
  /\ courtDates = <<>>
  /\ currentCase = <<>>
  /\ lastTime = <<>>
  /\ MainIdle
  /\ CsvIdle
  /\ NavIdle

\* one iteration of rows.each on row
AccRow(row) ==
  /\ mode = "acc"
  /\ lastKind # "returned"
  /\ rowCount < MaxRows
  /\ LET s == extractRowAcc(row, headersIndex, currentCase, lastTime)
     IN  /\ headersIndex' = s.hi
         /\ data' = data \o s.out
         /\ lastKind' = s.kind
         /\ currentCase' = s.currentCase
         /\ lastTime' = s.lastTime
  /\ rowCount' = rowCount + 1
  /\ lastRow' = row
  /\ UNCHANGED <<mode, template, headerRow, prevIndex, headerRows, courtDate, courtDates>>
  /\ UNCHANGED <<csvVars, navVars, mainVars>>

\* rows.each is over: the open case is pushed and data is returned
AccReturn ==
  /\ mode = "acc"
  /\ lastKind # "returned"
  /\ data' = data \o PushCase(currentCase)
  /\ lastKind' = "returned"
  /\ UNCHANGED <<mode, template, headersIndex, rowCount, lastRow, headerRow,
                 prevIndex, headerRows, courtDate, courtDates>>
  /\ UNCHANGED <<csvVars, navVars, accVars, mainVars>>

NextAcc ==
  \/ \E row \in HeaderRowsAcc \cup DataRowsAcc : AccRow(row)
  \/ AccReturn

SpecAcc == InitAcc /\ [][NextAcc]_vars

(***************************************************************************)
(* Properties                                                              *)
(***************************************************************************)
\* the words of text contain one that holds "possession"
MatchesPossession(text) ==
  \E i \in 1..Len(text) : Lower(text[i]) \in {"possession", "possessions", "repossession"}

\* the cells of a row that the extractor of layout tpl looks at
CellsSeen(tpl, row) ==
  IF tpl \in {"template5", "template7"}
  THEN SelectSeq(row, LAMBDA c : c.cls # "EmptyCellLayoutStyle")
  ELSE row

\* the column-span the mapper gives a cell: absent, non-numeric and zero count as 1
SpanOf(cell) ==
  CASE cell.colspan = <<"2">> -> 2
    [] cell.colspan = <<"-", "2">> -> -2
    [] OTHER -> 1

\* sum of the column-spans of the cells to the left of cell k
RECURSIVE SpanSum(_, _)
SpanSum(cells, k) ==
  IF k <= 1 THEN 0 ELSE SpanSum(cells, k - 1) + SpanOf(cells[k - 1])

\* the fields a header cell is resolved to, with their offset from its index
FieldsOfCell(tpl, cell) == HeaderAssign(tpl, normalizeText(CellText(cell)), 0, EmptyIndex)

\* the row satisfies the header predicate of the layout
SatisfiesHeaderPredicate(tpl, row) ==
  LET cells == CellsSeen(tpl, row)
      texts == [j \in 1..Len(cells) |-> CellText(cells[j])]
      joined == [j \in 1..Len(row) |-> ParagraphText(row[j])]
  IN  CASE tpl = "template4"  -> isHeaderRow4(texts)
        [] tpl = "template4a" -> isHeaderRow4a(joined)
        [] tpl = "template5"  -> isHeaderRow5(texts)
        [] tpl = "template7"  -> isHeaderRow7(texts)

\* C1: identifyTemplate is a first-match-wins waterfall: template7 whenever
\* the body holds a case-ref and a case-name token, even if later tests hold
\* too; template5 exactly when that fails and the five possession headers are
\* present; template4 exactly when both fail and the body holds a claim-number
\* token and the three fragments; template4a only when all earlier tests
\* fail; otherwise none.
C1_Waterfall ==
  fileCount > 0 =>
    LET body == BodyText(lastDoc)
        caseRef == CaseRefToken(body) /\ CaseNameToken(body)
        possession ==
          /\ StartTimeToken(body) /\ DurationToken(body) /\ CaseDetailToken(body)
          /\ HearingTypeToken(body) /\ HearingChannelToken(body)
        simple ==
          /\ ClaimNumberToken(body) /\ HasSeq(body, <<"nottingham">>)
          /\ HasSeq(body, <<"wigham">>) /\ CourtRoom7Token(body)
    IN  /\ (lastTemplate = "template7") <=> caseRef
        /\ (lastTemplate = "template5") <=> (~caseRef /\ possession)
        /\ (lastTemplate = "template4") <=> (~caseRef /\ ~possession /\ simple)
        /\ (lastTemplate = "template4a") =>
             (~caseRef /\ ~possession /\ ~simple /\ ClaimNumberToken(body))
        /\ (lastTemplate = "none") =>
             (~caseRef /\ ~possession /\ ~simple /\ ~ClaimNumberToken(body))
        /\ lastTemplate \in {"template7", "template5", "template4", "template4a", "none"}

\* C1 witness: a document classified template7 although the template5 headers
\* and a claim-number token are present as well
C1_Witness ==
  /\ fileCount > 0
  /\ lastTemplate = "template7"
  /\ StartTimeToken(BodyText(lastDoc)) /\ DurationToken(BodyText(lastDoc))
  /\ CaseDetailToken(BodyText(lastDoc)) /\ HearingTypeToken(BodyText(lastDoc))
  /\ HearingChannelToken(BodyText(lastDoc))
  /\ ClaimNumberToken(BodyText(lastDoc))

\* positions of the extracted rows whose Claim Number did not occur earlier
FirstOccurrences(extracted) ==
  {k \in 1..Len(extracted) :
     \A m \in 1..(k - 1) : extracted[m].ClaimNumber # extracted[k].ClaimNumber}

\* C2: within one document scrapeDataFromHtml returns at most one record per
\* Claim Number: of the rows extracted from the candidate tables, exactly the
\* first one of each Claim Number is kept, in extraction order.
C2_FirstWinsPerDocument ==
  fileCount > 0 =>
    LET keep == FirstOccurrences(lastExtracted)
    IN  /\ \A i, j \in 1..Len(lastData) :
             i < j => lastData[i].ClaimNumber # lastData[j].ClaimNumber
        /\ Len(lastData) = Cardinality(keep)
        /\ \A i \in 1..Len(lastData) :
             \E k \in keep :
               /\ Cardinality({m \in keep : m <= k}) = i
               /\ lastData[i] = lastExtracted[k]

\* C2 witness: a document whose tables yield a repeated Claim Number between
\* two kept records
C2_Witness ==
  /\ fileCount > 0
  /\ Len(lastData) >= 2
  /\ Len(lastExtracted) > Len(lastData)
  /\ \E k \in 1..Len(lastExtracted) :
       /\ k \notin FirstOccurrences(lastExtracted)
       /\ k < Len(lastExtracted)
       /\ (k + 1) \in FirstOccurrences(lastExtracted)

\* C3: no record returned by scrapeDataFromHtml has Claim Number "PCOL",
\* whatever the layout.
C3_NoSentinelClaimNumber ==
  \A i \in 1..Len(lastData) : lastData[i].ClaimNumber # <<"PCOL">>

\* C4: every record emitted by extractDataTemplate5 has a Hearing Type that
\* matches the possession token, and a row none of whose cells 5, 3, 6
\* matches it produces no record.
C4_PossessionOnly ==
  template = "template5" =>
    /\ \A i \in 1..Len(data) : MatchesPossession(data[i].HearingType)
    /\ lastKind = "data" =>
         \E k \in {3, 5, 6} :
           /\ k < Len(CellsSeen(template, lastRow))
           /\ MatchesPossession(CellText(CellsSeen(template, lastRow)[k + 1]))

\* C4 witness: template5 has emitted one record and then dropped a row whose
\* hearing type is "Trial"
C4_Witness ==
  /\ template = "template5"
  /\ lastKind = "filtered"
  /\ Len(data) = 1
  /\ Len(lastRow) = 5
  /\ CellText(lastRow[4]) = <<"Trial">>

\* the table of the end-to-end scenario has been extracted
ScenarioExtracted ==
  /\ template = "template4a"
  /\ rowCount = 2
  /\ headerRows = 1
  /\ headerRow = ScenarioHeader4a
  /\ lastRow = ScenarioRow4a
  /\ lastKind = "returned"

\* C5 (as stated): the scenario table yields one record with Claim Number
\* "CL123", Claimant "John Smith", Defendant "Jane Doe", Duration "Not Provided".
C5_ScenarioAsStated ==
  ScenarioExtracted =>
    /\ Len(data) = 1
    /\ data[1].ClaimNumber = <<"CL123">>
    /\ data[1].Claimant = <<"John", "Smith">>
    /\ data[1].Defendant = <<"Jane", "Doe">>
    /\ data[1].Duration = <<"Not", "Provided">>

\* C5 (amended): the scenario table yields one record with Claim Number
\* "CL123 | John Smith" (the whole second cell), Claimant "Jane Doe" (the
\* third cell up to its first " | "), Defendant "Not Provided" and Duration
\* "Not Provided".
C5_ScenarioAmended ==
  ScenarioExtracted =>
    /\ Len(data) = 1
    /\ data[1].ClaimNumber = <<"CL123", "|", "John", "Smith">>
    /\ data[1].Claimant = <<"Jane", "Doe">>
    /\ data[1].Defendant = <<"Not", "Provided">>
    /\ data[1].Duration = <<"Not", "Provided">>

\* C5 witness: the scenario table has been extracted and a record returned
C5_Witness == ScenarioExtracted /\ Len(data) = 1

\* C6: a document without a case-ref/case-name pair, without all five
\* possession headers and without a claim-number token is classified none and
\* scrapeDataFromHtml returns no record for it; a recognized document without
\* a candidate table returns no record either.
C6_NothingExtracted ==
  fileCount > 0 =>
    LET body == BodyText(lastDoc)
        noTokens ==
          /\ ~(CaseRefToken(body) /\ CaseNameToken(body))
          /\ ~(/\ StartTimeToken(body) /\ DurationToken(body) /\ CaseDetailToken(body)
               /\ HearingTypeToken(body) /\ HearingChannelToken(body))
          /\ ~ClaimNumberToken(body)
        noCandidate ==
          \A t \in 1..Len(lastDoc.tables) : ~isCandidateTable(lastTemplate, lastDoc.tables[t])
    IN  /\ noTokens => (lastTemplate = "none" /\ lastData = <<>>)
        /\ lastTemplate = "none" => lastData = <<>>
        /\ noCandidate => lastData = <<>>
        /\ lastData = <<>> => unprocessed # <<>> /\ unprocessed[Len(unprocessed)] = fileCount

\* C6 witness: an unrecognized document that holds a table, filed as unprocessed
C6_Witness ==
  /\ fileCount > 0
  /\ lastTemplate = "none"
  /\ lastDoc.tables # <<>>
  /\ lastDoc.paras # <<>>
  /\ lastData = <<>>

\* C7 (as stated): no two records of main's aggregate share a Claim Number.
C7_AggregateDeduplicated ==
  \A i, j \in 1..Len(allData) :
    i < j => allData[i].ClaimNumber # allData[j].ClaimNumber

\* C7 (amended): the aggregate is deduplicated by Claim Number within each
\* document only: no two records that come from the same file share a Claim
\* Number, and the records of a file are the first occurrences in that file.
C7_DeduplicatedPerDocument ==
  /\ Len(fileOf) = Len(allData)
  /\ \A i, j \in 1..Len(allData) :
       (i < j /\ fileOf[i] = fileOf[j]) =>
          allData[i].ClaimNumber # allData[j].ClaimNumber
  /\ \A i, j \in 1..Len(allData) : i < j => fileOf[i] <= fileOf[j]

\* C7 witness: the aggregate holds one Claim Number twice, from two files,
\* the second of which had a repeated Claim Number suppressed
C7_Witness ==
  /\ \E i, j \in 1..Len(allData) :
       /\ fileOf[i] < fileOf[j]
       /\ allData[i].ClaimNumber = allData[j].ClaimNumber
  /\ Len(lastExtracted) > Len(lastData)
  /\ Len(lastData) > 0

\* the text of a header cell is the combined header "claim number claimant"
IsCombinedHeaderCell(cell) ==
  normalizeText(CellText(cell)) = <<"claim", "number", "claimant">>

\* C8: in the template4a column mapper a header cell "claim number claimant"
\* at logical index i (the sum of the column-spans of the cells to its left)
\* yields claimNumber -> i and claimant -> i + 1; at index 1 with colspan 1
\* it yields claimNumber -> 1, claimant -> 2.
C8_CombinedHeaderCell ==
  (template = "template4a" /\ lastKind = "header") =>
    /\ \A k \in 1..Len(lastRow) :
         ( /\ IsCombinedHeaderCell(lastRow[k])
           /\ \A m \in (k + 1)..Len(lastRow) : ~IsCombinedHeaderCell(lastRow[m]) )
         => /\ {"claimNumber", "claimant"} \subseteq DOMAIN headersIndex
            /\ headersIndex["claimNumber"] = SpanSum(lastRow, k)
            /\ headersIndex["claimant"] = SpanSum(lastRow, k) + 1
    /\ lastRow = ScenarioHeader4a =>
         /\ headersIndex["claimNumber"] = 1
         /\ headersIndex["claimant"] = 2

\* C8 witness: the header row Time | Claim Number Claimant | Defendant without
\* colspans has been mapped
C8_Witness ==
  /\ template = "template4a"
  /\ lastKind = "header"
  /\ lastRow = ScenarioHeader4a
  /\ "claimNumber" \in DOMAIN headersIndex

\* the fields a header cell records at its own logical index
OwnFields(tpl, cell) ==
  {f \in DOMAIN FieldsOfCell(tpl, cell) : FieldsOfCell(tpl, cell)[f] = 0}

\* C9: in every column mapper the logical index recorded for a header cell is
\* the sum of the column-spans of the header cells to its left, and the
\* recorded indices are non-negative and strictly increasing from left to
\* right, for every colspan attribute value.
C9_IndicesNonNegativeIncreasing ==
  lastKind = "header" =>
    LET cells == CellsSeen(template, lastRow)
    IN  \A k \in 1..Len(cells) :
          \A f \in OwnFields(template, cells[k]) :
            /\ f \in DOMAIN headersIndex
            /\ headersIndex[f] >= 0
            /\ \A j \in 1..(k - 1) :
                 \A g \in OwnFields(template, cells[j]) :
                   headersIndex[g] < headersIndex[f]

\* the row iterated by the step, and the index a header cell of it records
NewRow == lastRow'

\* the last cell of cells that is resolved to field f, 0 when there is none
LastCellFor(tpl, cells, f) ==
  LET ks == {k \in 1..Len(cells) : f \in DOMAIN FieldsOfCell(tpl, cells[k])}
  IN  IF ks = {} THEN 0 ELSE CHOOSE k \in ks : \A m \in ks : m <= k

\* C10 (as stated): only the first row satisfying the header predicate builds
\* the ColumnMap; a later row satisfying it is processed as a data row and
\* leaves the ColumnMap unchanged.
C10_OnlyFirstHeaderRow ==
  [][ ( /\ rowCount' = rowCount + 1
        /\ headerRows >= 1
        /\ SatisfiesHeaderPredicate(template, NewRow) )
      => (headersIndex' = headersIndex /\ lastKind' # "header") ]_vars

\* C10 (amended): every row that reaches and satisfies the header predicate
\* rebuilds the ColumnMap entries of the header cells it holds, overwriting
\* the entries of earlier header rows, keeps the other entries and emits no
\* record; every other row leaves the ColumnMap unchanged.
C10_EveryHeaderRowRemaps ==
  [][ rowCount' = rowCount + 1 =>
        LET cells == CellsSeen(template, NewRow)
            texts == [j \in 1..Len(cells) |-> CellText(cells[j])]
            header == /\ SatisfiesHeaderPredicate(template, NewRow)
                      /\ ~(template = "template5" /\ isPartyRow5(texts))
        IN  IF header
            THEN /\ data' = data
                 /\ lastKind' = "header"
                 /\ \A f \in DOMAIN headersIndex' :
                      LET k == LastCellFor(template, cells, f)
                      IN  IF k = 0
                          THEN f \in DOMAIN headersIndex /\ headersIndex'[f] = headersIndex[f]
                          ELSE headersIndex'[f] =
                                 SpanSum(cells, k) + FieldsOfCell(template, cells[k])[f]
                 /\ DOMAIN headersIndex \subseteq DOMAIN headersIndex'
                 /\ \A k \in 1..Len(cells) :
                      DOMAIN FieldsOfCell(template, cells[k]) \subseteq DOMAIN headersIndex'
            ELSE headersIndex' = headersIndex /\ lastKind' # "header" ]_vars

\* C10 witness: a second header row has replaced the ColumnMap built by the
\* first header row of the table
C10_Witness ==
  /\ headerRows = 2
  /\ rowCount = 2
  /\ lastKind = "header"
  /\ prevIndex # EmptyIndex
  /\ headersIndex # prevIndex
  /\ headersIndex = MapHeaders(template, CellsSeen(template, lastRow), 0, EmptyIndex)

(***************************************************************************)
(* Records need a mapped header and a row of several cells                 *)
(***************************************************************************)
\* every cell of the row is empty after trimming
AllCellsEmpty(tpl, row) ==
  \A k \in 1..Len(CellsSeen(tpl, row)) : CellText(CellsSeen(tpl, row)[k]) = <<>>

\* C11: in each of the four extractors a row adds a record only if a header
\* row occurred earlier in the same table and left the ColumnMap non-empty,
\* the row has more than one cell and not all of its cells are empty; so no
\* record comes from a row that precedes the header.
C11_RecordNeedsHeaderAndCells ==
  [][ data' # data =>
        /\ headerRows >= 1
        /\ headersIndex # EmptyIndex
        /\ headersIndex' = headersIndex
        /\ Len(CellsSeen(template, NewRow)) > 1
        /\ ~AllCellsEmpty(template, NewRow)
        /\ Len(data') = Len(data) + 1 ]_vars

\* a row before the header gave nothing, the header row mapped columns and
\* the row after it gave the first record
C11_Witness ==
  /\ rowCount = 3
  /\ headerRows = 1
  /\ lastKind = "data"
  /\ Len(data) = 1
  /\ prevIndex = headersIndex
  /\ headersIndex # EmptyIndex
  /\ Len(CellsSeen(template, lastRow)) > 1

(***************************************************************************)
(* Pipes in claimant and defendant                                         *)
(***************************************************************************)
\* text holds the character '|'
HasPipe(text) == \E i \in 1..Len(text) : text[i] = "|"

\* C12: in every record emitted by any of the four extractors the Claimant
\* and the Defendant hold no pipe character, rows of the combined-header
\* layout with exactly three cells and a third cell of more than two
\* paragraph lines included.
C12_NoPipeInParties ==
  \A k \in 1..Len(data) : ~HasPipe(data[k].Claimant) /\ ~HasPipe(data[k].Defendant)

(***************************************************************************)
(* Claimant / defendant splitting as the specification states it           *)
(***************************************************************************)
\* the separator tokens of the splitter
SeparatorTokens == {"v", "vs", "-v-", "-vs-", "versus"}

\* the positions of text that hold one of the tokens with text on both sides
SepPositions(text, tokens) ==
  {i \in 2..(Len(text) - 1) : Lower(text[i]) \in tokens}

\* the least element of a non-empty set of positions
MinOf(S) == CHOOSE i \in S : \A k \in S : i <= k

\* the record of the row that the last iteration emitted
LastRecord == data[Len(data)]

\* the texts of the cells the extractor reads from the last row
LastCellsText ==
  [k \in 1..Len(CellsSeen(template, lastRow)) |->
     CellText(CellsSeen(template, lastRow)[k])]

\* the Case Details texts of the last row: the texts that start with the
\* claim number of the emitted record
CaseDetailsTexts ==
  {LastCellsText[k] : k \in {j \in 1..Len(LastCellsText) :
      /\ LastCellsText[j] # <<>>
      /\ <<LastCellsText[j][1]>> = LastRecord.ClaimNumber}}

\* C13: extractDataTemplate5 on Case Details "<claimNo> A <sep> B" with <sep>
\* one of v, vs, -v-, -vs-, versus in any letter case gives Claim Number the
\* first token, Claimant A and Defendant B; Case Details without a separator
\* give Claimant and Defendant "Not Provided".
C13_CaseDetailsSplit ==
  (template = "template5" /\ lastKind = "data") =>
    \A cd \in CaseDetailsTexts :
      LET rest == Tail(cd)
          seps == SepPositions(rest, SeparatorTokens)
      IN  /\ Cardinality(seps) = 0 =>
               /\ LastRecord.Claimant = NotProvided
               /\ LastRecord.Defendant = NotProvided
          /\ Cardinality(seps) = 1 =>
               /\ LastRecord.Claimant = SubSeq(rest, 1, MinOf(seps) - 1)
               /\ LastRecord.Defendant = SubSeq(rest, MinOf(seps) + 1, Len(rest))

\* the Case Name text of the last row of a template7 table whose header row
\* put Case Name in the fourth column
CaseNameTexts ==
  IF /\ "caseName" \in DOMAIN prevIndex
     /\ prevIndex["caseName"] = 3
     /\ Len(LastCellsText) >= 4
  THEN {LastCellsText[4]}
  ELSE {}

\* C14: extractDataTemplate7 splits the Case Name on a whitespace-delimited
\* v / vs / versus; a Case Name without such a separator, a name that merely
\* holds the letter v inside a word included, gives Claimant and Defendant
\* "Not Provided".
C14_CaseNameSplit ==
  (template = "template7" /\ lastKind = "data") =>
    \A name \in CaseNameTexts :
      LET seps == SepPositions(name, {"v", "vs", "versus"})
      IN  /\ Cardinality(seps) = 0 =>
               /\ LastRecord.Claimant = NotProvided
               /\ LastRecord.Defendant = NotProvided
          /\ Cardinality(seps) = 1 =>
               /\ LastRecord.Claimant = SubSeq(name, 1, MinOf(seps) - 1)
               /\ LastRecord.Defendant = SubSeq(name, MinOf(seps) + 1, Len(name))

\* the text the splitter of the last row works on: the Case Details without
\* the claim number (template5) or the Case Name (template7)
PartiesTexts ==
  CASE template = "template5" -> {Tail(cd) : cd \in CaseDetailsTexts}
    [] template = "template7" -> CaseNameTexts
    [] OTHER -> {}

\* C15: the splitter splits at the first separator only: for a text with two
\* or more whitespace-delimited separators ("A v B v C") the Claimant is the
\* text before the first separator and the Defendant is all of the text
\* after the first separator.
C15_SplitAtFirstSeparatorOnly ==
  lastKind = "data" =>
    \A text \in PartiesTexts :
      LET seps == SepPositions(text, {"v", "vs"})
      IN  Cardinality(seps) >= 2 =>
            /\ LastRecord.Claimant = SubSeq(text, 1, MinOf(seps) - 1)
            /\ LastRecord.Defendant = SubSeq(text, MinOf(seps) + 1, Len(text))

\* the Case Type field of the last row: the cell in the column that the
\* header row mapped to Case Type
CaseTypeField == AtField(LastCellsText, prevIndex, "caseType")

\* text holds a "poss" or "possession" token, in any letter case
HasPossToken(text) ==
  /\ text # Undefined
  /\ \E i \in 1..Len(text) : Lower(text[i]) \in PossessionWords \cup {"poss"}

\* C16: extractDataTemplate7 keeps a data row if and only if its Case Type
\* field holds a "poss" or "possession" token in any letter case; a row with
\* Case Type "Poss" is kept and every row without such a token is dropped.
C16_CaseTypeFilter ==
  ( /\ template = "template7"
    /\ lastKind \in {"data", "filtered"} ) =>
      (lastKind = "data" <=> HasPossToken(CaseTypeField))

\* C17: every record emitted by any of the four extractors has a non-empty
\* Claimant and a non-empty Defendant: a missing or empty source cell gives
\* "Not Provided", never the empty string.
C17_PartiesNeverEmpty ==
  \A k \in 1..Len(data) : data[k].Claimant # <<>> /\ data[k].Defendant # <<>>

(***************************************************************************)
(* Court dates of the records                                              *)
(***************************************************************************)
\* the dd/mm/yyyy form of the raw dates that are written as
\* "<Weekday>, <day><suffix> <Month> <Year>" or "<day><suffix> <Month> <Year>"
WrittenDates ==
  (ScenarioDate :> "18/10/2024") @@ (CommaFreeDate :> "15/11/2024")
  @@ (<<"1st", "October", "2025">> :> "01/10/2025")

\* C18: in every layout's extractor formatCourtDate maps
\* "<Weekday>, <day><suffix> <Month> <Year>" to the zero-padded dd/mm/yyyy
\* date ("Tuesday, 18th October 2024" gives "18/10/2024") and maps the
\* comma-free "<day><suffix> <Month> <Year>" to the same form
\* ("15th November 2024" gives "15/11/2024").
C18_FormatsBothForms ==
  courtDate \in DOMAIN WrittenDates =>
    \A k \in 1..Len(courtDates) : courtDates[k] = WrittenDates[courtDate]

\* the raw dates no part of which is a date
UnparseableDates == {<<>>, <<"Court", "list">>, <<"Tuesday", ",", "Court", "list">>}

\* C19: an unparseable or missing raw court date never drops a record and
\* never raises: formatCourtDate returns the empty string and the record of
\* the data row is still emitted, with Court Date "".
C19_UnparseableDateKeepsRecord ==
  [][ (courtDate \in UnparseableDates /\ rowCount' = rowCount + 1) =>
        /\ lastKind' # "throws"
        /\ data' = data \o extractRow(template, NewRow, headersIndex).out
        /\ Len(courtDates') = Len(data')
        /\ \A k \in 1..Len(courtDates') : courtDates'[k] = "" ]_vars

\* the short table gave a record although the raw court date is no date
C19_Witness ==
  /\ mode = "dates"
  /\ courtDate \in UnparseableDates
  /\ lastKind = "data"
  /\ Len(data) >= 1
  /\ Len(courtDates) = Len(data)
  /\ courtDates[Len(courtDates)] = ""

(***************************************************************************)
(* The batch of the fetch-and-extract program                              *)
(***************************************************************************)
\* no <p> of doc matches the date pattern: the raw Court Date is empty
NoDateParagraph(doc) == \A k \in 1..Len(doc.paras) : ~datePattern(doc.paras[k])

\* C20: an error raised while extracting one document never aborts the
\* batch: when a document without a paragraph matching the date pattern has
\* been handed to the extraction, main is not ended by it; it goes on to the
\* remaining files and to writing the aggregate.
C20_DocumentErrorKeepsBatch ==
  (lastDoc # NoDoc /\ NoDateParagraph(lastDoc)) => mode # "aborted"

(***************************************************************************)
(* Routing of the files and the aggregate                                  *)
(***************************************************************************)
\* the elements of a sequence
RangeOf(seq) == {seq[i] : i \in 1..Len(seq)}

\* C21: after main has run over the directory every .html file has been
\* moved to exactly one folder, unprocessed_files if and only if
\* scrapeDataFromHtml returned zero records for it and checked_files
\* otherwise, and the aggregate holds exactly the records of the files moved
\* to checked_files, in processing order.
C21_FilesRoutedAndAggregated ==
  /\ [](mode \in {"main", "done"} =>
          /\ RangeOf(unprocessed) \cup RangeOf(checked) = 1..fileCount
          /\ RangeOf(unprocessed) \cap RangeOf(checked) = {}
          /\ Len(unprocessed) + Len(checked) = fileCount
          /\ RangeOf(fileOf) = RangeOf(checked)
          /\ \A i \in 1..(Len(fileOf) - 1) : fileOf[i] <= fileOf[i + 1]
          /\ (mode = "done" => saved = allData))
  /\ [][ fileCount' = fileCount + 1 =>
           LET returned == scrapeResults[lastDoc'].data
           IN  /\ (fileCount' \in RangeOf(unprocessed')) <=> (Len(returned) = 0)
               /\ (lastTemplate' = "none" \/ candidateTables(lastTemplate', lastDoc') = <<>>)
                    => fileCount' \in RangeOf(unprocessed')
               /\ allData' = allData \o returned
               /\ \A i \in 1..Len(returned) : fileOf'[Len(allData) + i] = fileCount' ]_vars

\* two files were read: one gave no record, the other gave records that were saved
C21_Witness ==
  /\ mode = "done"
  /\ fileCount = 2
  /\ Len(unprocessed) = 1
  /\ Len(checked) = 1
  /\ saved = allData
  /\ Len(saved) >= 1

(***************************************************************************)
(* C22: the CSV file                                                       *)
(***************************************************************************)
Malformed == <<"\\malformed">>

\* the text of a quoted field whose opening quote is just before position i
\* of the line, and the position after its closing quote
RECURSIVE ParseQuoted(_, _, _)
ParseQuoted(line, i, acc) ==
  IF i > Len(line) THEN [ok |-> FALSE, field |-> acc, next |-> i]
  ELSE IF line[i] = "\""
       THEN IF i + 1 <= Len(line) /\ line[i + 1] = "\""
            THEN ParseQuoted(line, i + 2, Append(acc, "\""))
            ELSE [ok |-> TRUE, field |-> acc, next |-> i + 1]
       ELSE ParseQuoted(line, i + 1, Append(acc, line[i]))

\* the fields of a CSV line of quoted fields, as a CSV reader takes them
RECURSIVE ParseCsvLine(_, _)
ParseCsvLine(line, i) ==
  IF i > Len(line) \/ line[i] # "\"" THEN Malformed
  ELSE LET f == Only({ParseQuoted(l, i + 1, <<>>) : l \in {line}})
       IN  IF ~f.ok THEN Malformed
           ELSE IF f.next > Len(line) THEN <<f.field>>
           ELSE IF line[f.next] # "," THEN Malformed
           ELSE LET rest == Only({ParseCsvLine(l, f.next + 1) : l \in {line}})
                IN  IF rest = Malformed THEN Malformed ELSE <<f.field>> \o rest

\* the nine columns in the order the specification gives them
NineColumns ==
  <<"Court Name", "Court Date", "Claim Number", "Claimant", "Defendant",
    "Duration", "Hearing Type", "Hearing Channel", "Title">>

\* the value of a column of a record: its text without the white space
\* around it, empty when the record has no such key
ColumnValue(row, column) ==
  IF column \in DOMAIN row THEN Trim(row[column]) ELSE <<>>

\* C22: saveToCsv writes no file for an empty list of records; for a list
\* that is not empty the file has one header line, the nine column names in
\* the fixed order separated by commas, and then one line per record, in
\* the order of the list; each of these lines is nine fields wrapped in
\* double quotes, and read back as CSV (a doubled double quote inside a
\* field standing for one) the fields are the nine values of the record in
\* the same fixed order.
C22_CsvLayout ==
  /\ csvData = <<>> => ~csvFile.written
  /\ mode = "saved" /\ csvData # <<>> =>
       /\ csvFile.written
       /\ Len(csvFile.lines) = 1 + Len(csvData)
       /\ csvFile.lines[1] =
            <<"Court Name", ",", "Court Date", ",", "Claim Number", ",",
              "Claimant", ",", "Defendant", ",", "Duration", ",",
              "Hearing Type", ",", "Hearing Channel", ",", "Title">>
       /\ \A r \in 1..Len(csvData) :
            ParseCsvLine(csvFile.lines[r + 1], 1) =
              [c \in 1..9 |-> ColumnValue(csvData[r], NineColumns[c])]

\* C22 witness: a file written from two records, one of them with a double
\* quote inside a field
C22_Witness ==
  /\ mode = "saved"
  /\ csvFile.written
  /\ Len(csvData) = MaxRecords
  /\ \E r \in 1..Len(csvData) : \E c \in DOMAIN csvData[r] :
       \E k \in 1..Len(csvData[r][c]) : csvData[r][c][k] = "\""

(***************************************************************************)
(* C27: the composite signal of identifyTemplate                           *)
(***************************************************************************)
\* C27: the composite signal never decides the outcome of identifyTemplate:
\* a document for which the composite signal holds has a claim-number token
\* in its body text, and every classified document that none of the
\* template7, template5 and template4 tests matches is classified template4a
\* if and only if its body text has a claim-number token.
C27_CompositeSignalRedundant ==
  fileCount > 0 =>
    LET textContent == normalizeText(BodyText(lastDoc))
    IN  /\ compositeSignal(lastDoc) => ClaimNumberToken(textContent)
        /\ (/\ ~hasCaseRefLayout(textContent)
            /\ ~hasPossessionHeaders(textContent)
            /\ ~hasSimpleClaimFragments(textContent))
             => (lastTemplate = "template4a" <=> ClaimNumberToken(textContent))

\* C27 witness: a document classified template4a for which the composite
\* signal holds
C27_Witness ==
  /\ fileCount > 0
  /\ compositeSignal(lastDoc)
  /\ lastTemplate = "template4a"

(***************************************************************************)
(* C23: classification is deterministic                                    *)
(***************************************************************************)
\* identifyTemplate of every document of the batch specification
templateOf == [doc \in Docs |-> identifyTemplate(doc)]

LastRowLines(j) ==
  IF lastRow[j + 1].p THEN SelectSeq(lastRow[j + 1].lines, LAMBDA l : l # <<>>)
  ELSE <<>>

\* C24: a template4a data row of exactly 3 cells gives as Claimant the text
\* of the third cell before its first " | " boundary and as Defendant all the
\* text after that boundary, an empty part becoming "Not Provided"; a data
\* row of 4 cells gives as Claimant and Defendant the texts of cells 2 and 3.
C24_ThreeAndFourCellRows ==
  (template = "template4a" /\ lastKind = "data") =>
    /\ Len(lastRow) = 3 =>
         /\ LastRecord.Claimant =
              (IF LastRowLines(2) = <<>> THEN NotProvided ELSE LastRowLines(2)[1])
         /\ LastRecord.Defendant =
              (IF Len(LastRowLines(2)) < 2 THEN NotProvided
               ELSE JoinPipe(Tail(LastRowLines(2))))
    /\ Len(lastRow) = 4 =>
         /\ LastRecord.Claimant =
              (IF LastRowLines(2) = <<>> THEN NotProvided ELSE Flatten(LastRowLines(2)))
         /\ LastRecord.Defendant =
              (IF LastRowLines(3) = <<>> THEN NotProvided ELSE Flatten(LastRowLines(3)))

\* C24 witness: a row of 3 cells whose third cell has two " | " boundaries
C24_Witness ==
  /\ template = "template4a"
  /\ lastKind = "data"
  /\ Len(lastRow) = 3
  /\ Len(LastRowLines(2)) = 3
  /\ LastRecord.Defendant = JoinPipe(Tail(LastRowLines(2)))

(***************************************************************************)
(* C28: the column alignment of a template5 row                            *)
(***************************************************************************)
\* the shift of the alignment the first matching position of 5, 3, 6 selects:
\* the fields are read from cells (shift, shift + 1, ..., shift + 4)
AlignmentShift ==
  IF IsPossession(At0(LastCellsText, 5)) THEN 2
  ELSE IF IsPossession(At0(LastCellsText, 3)) THEN 0
  ELSE 3

\* C28: every record extractDataTemplate5 emits reads duration, case details
\* (whose first word is the claim number), hearing type and hearing channel
\* from the one alignment that the first of the positions 5, 3, 6 holding a
\* possession token selects: cells (3,4,5,6) when cell 5 matches, whatever
\* the other cells contain, else cells (1,2,3,4) when cell 3 matches, else
\* cells (4,5,6,7).
C28_ConsistentAlignment ==
  (template = "template5" /\ lastKind = "data") =>
    /\ LastRecord.Duration =
         OrElse(At0(LastCellsText, AlignmentShift + 1), NotProvided)
    /\ LastRecord.ClaimNumber =
         <<At0(LastCellsText, AlignmentShift + 2)[1]>>
    /\ LastRecord.HearingType = At0(LastCellsText, AlignmentShift + 3)
    /\ LastRecord.HearingChannel =
         OrElse(At0(LastCellsText, AlignmentShift + 4), NotProvided)

(***************************************************************************)
(* C30: Duration and Hearing Type of a template7 record                    *)
(***************************************************************************)
\* C30: in every record extractDataTemplate7 emits, Duration is the text of
\* the data cell in the column the header map gives the Duration header and
\* Hearing Type is the text of the data cell in the column it gives the
\* Hearing Type header, each "Not Provided" when that cell is empty, for
\* every header order and column span.
C30_DurationAndHearingTypeByHeader ==
  (template = "template7" /\ lastKind = "data") =>
    /\ LastRecord.Duration =
         OrElse(AtField(LastCellsText, headersIndex, "duration"), NotProvided)
    /\ LastRecord.HearingType =
         OrElse(AtField(LastCellsText, headersIndex, "hearingType"), NotProvided)

(***************************************************************************)
(* C29: navigateWithRetries                                                *)
(***************************************************************************)
\* C29: navigateWithRetries makes at most maxRetries navigation attempts and
\* returns normally only if one of its page.goto calls succeeded; when every
\* attempt fails it throws on the last one, also when a login form was found
\* after a failed attempt and performLogin was run again.
C29_ReturnsOnlyAfterSuccessfulGoto ==
  /\ navPc \in {"goto", "catch", "returned", "threw"} => attempt \in 1..maxRetries
  /\ navPc = "returned" => gotoSucceeded

(***************************************************************************)
(* C25, C26: the accumulator variant of extractDataTemplate4a              *)
(***************************************************************************)
\* the cells of a row that have the form "Claim <n>: A versus B"
ClaimCells(row) == {j \in 1..Len(row) : VersusAt(CellText(row[j])) # 0}

\* a row that is read in the new format
NewFormatRow(row) == \E j \in 1..Len(row) : IsNewFormatCell(CellText(row[j]))

\* the text of the cell of a row that lies in the claim-number column of
\* the header map hi is not empty
HasClaimNumber(row, hi) ==
  /\ "claimNumber" \in DOMAIN hi
  /\ \E j \in 1..Len(row) :
       /\ SpanSum(row, j) <= hi["claimNumber"]
       /\ hi["claimNumber"] < SpanSum(row, j) + SpanOf(row[j])
       /\ CellText(row[j]) # <<>>

HeaderShapedRow(row) ==
  isHeaderRowAcc([j \in 1..Len(row) |-> CellText(row[j])])

\* a row that starts a case once the header map is hi
CaseStartRow(row, hi) ==
  \/ ClaimCells(row) # {}
  \/ ~NewFormatRow(row) /\ ~HeaderShapedRow(row) /\ HasClaimNumber(row, hi)

\* the number of cases a row starts: one per cell of the new format
CaseStarts(row, hi) ==
  IF ClaimCells(row) # {} THEN Cardinality(ClaimCells(row))
  ELSE IF CaseStartRow(row, hi) THEN 1 ELSE 0

OpenCases == IF currentCase = <<>> THEN 0 ELSE 1

\* the step reads one more row of the table
ReadsRow == mode = "acc" /\ rowCount' = rowCount + 1

\* the step is the end-of-table flush
Flushes == mode = "acc" /\ lastKind # "returned" /\ lastKind' = "returned"

\* the records emitted before the step stay, in their order, and the case
\* that was open before the step is the next record when the step emits
EmitsInOrder ==
  /\ Len(data') >= Len(data)
  /\ SubSeq(data', 1, Len(data)) = data
  /\ (Len(data') > Len(data) /\ currentCase # <<>>)
       => data'[Len(data) + 1] = CaseRecord(currentCase[1])

\* the flush emits the open case, and nothing when no case is open
FlushEmitsOpenCase ==
  data' = IF currentCase = <<>> THEN data
          ELSE Append(data, CaseRecord(currentCase[1]))

\* C25 as stated: every row that starts a case leads to exactly one record,
\* emitted when the next case starts or at the end-of-table flush, in row
\* order, so that emitted records plus the open case grow by one with every
\* case-start row and by nothing with any other row.
C25_OneRecordPerCaseStartRow ==
  [][ /\ ReadsRow =>
           /\ EmitsInOrder
           /\ Len(data') + OpenCases' =
                Len(data) + OpenCases
                  + (IF CaseStartRow(lastRow', headersIndex) THEN 1 ELSE 0)
      /\ Flushes => FlushEmitsOpenCase ]_vars

\* C25: every case start, that is every row of the original format with a
\* non-empty claim-number cell after the header row and every cell of the
\* form "Claim <n>: A versus B" (a row may hold several), leads to exactly
\* one record: it is emitted when the next case starts or at the
\* end-of-table flush, records are emitted in the order of the case starts,
\* and emitted records plus the open case grow by the number of case starts
\* of each row.
C25_OneRecordPerCaseStart ==
  [][ /\ ReadsRow =>
           /\ EmitsInOrder
           /\ Len(data') + OpenCases' =
                Len(data) + OpenCases + CaseStarts(lastRow', headersIndex)
           /\ CaseStarts(lastRow', headersIndex) > 0 =>
                /\ currentCase' # <<>>
                /\ Len(data') = Len(data) + OpenCases
                                 + CaseStarts(lastRow', headersIndex) - 1
      /\ Flushes => FlushEmitsOpenCase ]_vars

\* C25 witness: the table is read to its end, a case of the original format
\* was emitted when a row with two cells of the new format started two more
\* cases, and the flush emitted the last of them
C25_Witness ==
  /\ mode = "acc"
  /\ lastKind = "returned"
  /\ rowCount = 3
  /\ Cardinality(ClaimCells(lastRow)) = 2
  /\ Len(data) = 3
  /\ data[3] = CaseRecord(currentCase[1])

\* a continuation row: the header was found, the row is neither a header
\* row nor a row of the new format, and its claim-number cell is empty
ContinuationRow(row, hi) ==
  /\ DOMAIN hi # {}
  /\ ~NewFormatRow(row)
  /\ ~HeaderShapedRow(row)
  /\ ~HasClaimNumber(row, hi)

\* the text a row holds in the column the header map hi gives field f
ColumnText(row, hi, f) ==
  IF f \notin DOMAIN hi THEN <<>>
  ELSE Flatten([i \in 1..Len(row) |->
                  IF SpanSum(row, i) <= hi[f] /\ hi[f] < SpanSum(row, i) + SpanOf(row[i])
                  THEN CellText(row[i]) ELSE <<>>])

\* C26: a continuation row only appends its claimant and defendant text to
\* the case that is open: it emits no record, leaves every emitted record
\* and the header map as they were, and changes nothing when no case is open.
C26_ContinuationOnlyAppends ==
  [][ (ReadsRow /\ ContinuationRow(lastRow', headersIndex)) =>
        /\ data' = data
        /\ headersIndex' = headersIndex
        /\ currentCase = <<>> => currentCase' = <<>>
        /\ currentCase # <<>> =>
             currentCase' =
               << [currentCase[1] EXCEPT
                     !.claimant = @ \o ColumnText(lastRow', headersIndex, "claimant"),
                     !.defendant = @ \o ColumnText(lastRow', headersIndex, "defendant")] >>
    ]_vars

\* C26 witness: a continuation row added claimant text to the open case
\* after a record had been emitted
C26_Witness ==
  /\ mode = "acc"
  /\ lastKind = "continuation"
  /\ Len(data) >= 1
  /\ currentCase # <<>>
  /\ ColumnText(lastRow, headersIndex, "claimant") # <<>>
  /\ Len(currentCase[1].claimant) > Len(ColumnText(lastRow, headersIndex, "claimant"))

====
